---------------------------- MODULE Spec2Model ----------------------------
(***************************************************************************)
(* Stealth addresses for Solana (deepakA18/stealth-address-solana).        *)
(*                                                                         *)
(* The model follows src/unnamed/part_001 (crypto.ts: curve bridge, key    *)
(* derivation, view tags, scalar-form keys) and src/src/sdk.ts (account,   *)
(* payment, scanner).                                                      *)
(*                                                                         *)
(* Curve25519 is scaled down so that TLC can enumerate it; the structure   *)
(* is kept:                                                                *)
(*   - a byte has BYTE_BITS bits and a key KEY_LENGTH bytes;               *)
(*   - the Edwards group is Z_L x Z_COFACTOR: a point is its discrete log  *)
(*     k to the basepoint B and its torsion part tor; L is prime and       *)
(*     COFACTOR * L exceeds every clamped scalar, as 8L > 2^255 does;      *)
(*   - a public key is the Edwards y of the point (shared by P and -P)     *)
(*     plus the sign of x in the top bit, little-endian; y = 1 is the      *)
(*     identity and y = -1 the point of order 2, as on Ed25519;            *)
(*   - the Montgomery u is (1 + y) / (1 - y) in the field of FIELD_P       *)
(*     elements, computed as the code computes it;                         *)
(*   - SHA-256 and SHA-512 are fixed mixing functions over byte strings.   *)
(* Library calls (@noble/curves, @solana/web3.js) are modelled by their    *)
(* documented behaviour at the place the source calls them.                *)
(***************************************************************************)
EXTENDS Integers, Sequences, FiniteSets, TLC

\* ------------------------------------------------------------------------
\* Sizes
\* ------------------------------------------------------------------------

\* bits of one byte (the code: v & 0xff, v >>= 8)
BYTE_BITS == 3

\* bytes of a seed, a public key, a scalar (the code: 32)
KEY_LENGTH == 2

\* order of the prime-order subgroup (ed25519.CURVE.n)
L == 17

\* cofactor of the curve: clamping clears the low bits (h[0] &= 248)
COFACTOR == 2

\* size of the base field (ed25519.CURVE.Fp)
FIELD_P == 31

\* how many distinct seeds the random generator can deliver
NSeeds == 2

\* how many payments senders create
MaxPayments == 1

\* how many announcements a scan is handed
MaxAnnouncements == 2

\* how many withdrawals are made
MaxWithdrawals == 1

ByteMod == 2 ^ BYTE_BITS

Byte == 0 .. (ByteMod - 1)

Accounts == {"A", "B"}

\* ------------------------------------------------------------------------
\* Results of operations that may throw
\* ------------------------------------------------------------------------

Ok(v) == [ok |-> TRUE, val |-> v]

Err(e) == [ok |-> FALSE, err |-> e]

\* const x = call(); rest(x): a throw of the call is the throw of the whole
Then(r, rest(_)) == IF r.ok THEN rest(r.val) ELSE r

\* const x = v; rest(x)
Let(v, rest(_)) == rest(v)

\* ------------------------------------------------------------------------
\* Byte strings and integers
\* ------------------------------------------------------------------------

RECURSIVE bytesToBigInt(_)
\* big-endian
bytesToBigInt(bytes) ==
    IF bytes = <<>> THEN 0
    ELSE bytesToBigInt(SubSeq(bytes, 1, Len(bytes) - 1)) * ByteMod
         + bytes[Len(bytes)]

RECURSIVE bytesToBigIntLE(_)
\* little-endian
bytesToBigIntLE(bytes) ==
    IF bytes = <<>> THEN 0
    ELSE bytes[1] + ByteMod * bytesToBigIntLE(Tail(bytes))

RECURSIVE bigIntToBytesLE(_, _)
\* little-endian, fixed length; higher digits are dropped
bigIntToBytesLE(value, length) ==
    IF length = 0 THEN <<>>
    ELSE <<value % ByteMod>> \o bigIntToBytesLE(value \div ByteMod, length - 1)

\* secretKey.slice(0, 32) of a 64-byte secret key, the key itself at 32
extractScalar(secretKey) ==
    IF Len(secretKey) = 2 * KEY_LENGTH THEN Ok(SubSeq(secretKey, 1, KEY_LENGTH))
    ELSE IF Len(secretKey) = KEY_LENGTH THEN Ok(secretKey)
    ELSE Err("Invalid secret key length")

\* ------------------------------------------------------------------------
\* Hashes
\* ------------------------------------------------------------------------

RECURSIVE Absorb(_, _, _, _)
Absorb(bytes, h, mul, modulus) ==
    IF bytes = <<>> THEN h
    ELSE Absorb(Tail(bytes), (h * mul + bytes[1] + 7) % modulus, mul, modulus)

Squeeze(h, a, c, modulus, length) ==
    bigIntToBytesLE((h * h + a * h + c) % modulus, length)

\* SHA-512: twice KEY_LENGTH bytes
sha512(bytes) ==
    Squeeze(Absorb(bytes, 5 + Len(bytes), 31, 4093), 11, 3, 4093,
            2 * KEY_LENGTH)

\* SHA-256: KEY_LENGTH bytes
sha256(bytes) ==
    Squeeze(Absorb(bytes, 3 + Len(bytes), 41, 1021), 5, 1, 1021, KEY_LENGTH)

\* ------------------------------------------------------------------------
\* The Edwards group (ed25519.ExtendedPoint)
\* ------------------------------------------------------------------------

Point == [k : 0 .. (L - 1), tor : 0 .. (COFACTOR - 1)]

BASE == [k |-> 1, tor |-> 0]

ZERO == [k |-> 0, tor |-> 0]

PointAdd(P, Q) ==
    [k |-> (P.k + Q.k) % L, tor |-> (P.tor + Q.tor) % COFACTOR]

PointNegate(P) ==
    [k |-> (L - P.k) % L, tor |-> (COFACTOR - P.tor) % COFACTOR]

\* the group's scalar multiplication, any n >= 0
PointMulUnsafe(P, n) ==
    [k |-> (n * P.k) % L, tor |-> (n * P.tor) % COFACTOR]

\* Point.multiply(scalar): the scalar must be in 1 .. L-1
PointMultiply(P, scalar) ==
    IF scalar >= 1 /\ scalar < L THEN Ok(PointMulUnsafe(P, scalar))
    ELSE Err("invalid scalar: expected 1 <= sc < curve.n")

\* the affine y of a point; P and -P have the same y
EdwardsY(P) ==
    LET m == IF 2 * P.k > L THEN L - P.k ELSE P.k
    IN  IF m = 0 THEN (IF P.tor = 0 THEN 1 ELSE FIELD_P - 1)
        ELSE COFACTOR * m + P.tor

\* the sign of the affine x
EdwardsXIsOdd(P) == 2 * P.k > L

SignBit == 2 ^ (BYTE_BITS * KEY_LENGTH - 1)

\* Point.toRawBytes(): y little-endian, the sign of x in the top bit
toRawBytes(P) ==
    bigIntToBytesLE(EdwardsY(P) + (IF EdwardsXIsOdd(P) THEN SignBit ELSE 0),
                    KEY_LENGTH)

\* the point of a y whose x is even, if y is the y of a point at all
PointOfY(y) ==
    IF y = 1 THEN ZERO
    ELSE IF y = FIELD_P - 1 THEN [k |-> 0, tor |-> 1]
    ELSE [k |-> (y \div COFACTOR) % L, tor |-> y % COFACTOR]

IsOnCurve(y) == y < FIELD_P /\ EdwardsY(PointOfY(y)) = y

\* the point of a y and a sign of x: x = 0 with the sign bit set is rejected
Decompress(y, isXOdd) ==
    IF ~IsOnCurve(y) THEN Err("bad point: not on curve")
    ELSE Let(PointOfY(y), LAMBDA P :
           IF isXOdd /\ P.k = 0 THEN Err("bad point: x = 0 and sign bit")
           ELSE Ok(IF isXOdd THEN PointNegate(P) ELSE P))

\* Point.fromHex(bytes): y must be below the field size and the y of a
\* point; x is recovered with the sign the top bit gives
fromHex(bytes) ==
    IF Len(bytes) # KEY_LENGTH THEN Err("bad point: wrong length")
    ELSE Let(bytesToBigIntLE(bytes), LAMBDA code :
           Decompress(code % SignBit, code \div SignBit = 1))

\* ------------------------------------------------------------------------
\* Ed25519 / X25519 conversions
\* ------------------------------------------------------------------------

\* h[0] &= 248
ClampLow(b) == b - (b % COFACTOR)

\* h[31] &= 127; h[31] |= 64
ClampHigh(b) ==
    LET c == b % (ByteMod \div 2)
    IN  IF c >= ByteMod \div 4 THEN c ELSE c + (ByteMod \div 4)

Clamp(h) == [h EXCEPT ![1] = ClampLow(@), ![Len(h)] = ClampHigh(@)]

\* the Ed25519 scalar of a seed: SHA-512, clamped, little-endian
seedToScalar(seed) ==
    bytesToBigIntLE(Clamp(SubSeq(sha512(seed), 1, KEY_LENGTH)))

\* the X25519 private key taken from the seed itself, without the hash
ed25519SeedToX25519PrivUnhashed(seed) == Clamp(seed)

\* the X25519 private key of a seed: SHA-512, clamped
ed25519SeedToX25519Priv(seed) ==
    Clamp(SubSeq(sha512(seed), 1, KEY_LENGTH))

RECURSIVE FpPow(_, _)
\* a ^ e in the field, by squaring
FpPow(a, e) ==
    IF e = 0 THEN 1
    ELSE IF e % 2 = 1 THEN (a * FpPow(a, e - 1)) % FIELD_P
    ELSE FpPow((a * a) % FIELD_P, e \div 2)

\* Fp.inv: throws on 0; the inverse is a ^ (p - 2)
FpInv(a) ==
    IF a % FIELD_P = 0 THEN Err("invert: expected non-zero number")
    ELSE Ok(FpPow(a % FIELD_P, FIELD_P - 2))

\* u = (1 + y) / (1 - y), little-endian
ed25519PubToX25519(edPub) ==
    Then(fromHex(edPub), LAMBDA point :
      Let(EdwardsY(point), LAMBDA y :
        LET numerator == (1 + y) % FIELD_P
            denominator == (1 + FIELD_P - y) % FIELD_P
        IN  Then(FpInv(denominator), LAMBDA inverse :
              Ok(bigIntToBytesLE((numerator * inverse) % FIELD_P,
                                 KEY_LENGTH)))))

\* the Montgomery u of a point, 0 for the point at infinity
MontgomeryU(P) ==
    Let(EdwardsY(P), LAMBDA y :
      IF y = 1 THEN 0
      ELSE ((1 + y) * FpPow((1 + FIELD_P - y) % FIELD_P, FIELD_P - 2))
           % FIELD_P)

\* x25519.scalarMult(scalar, u): the u of scalar * P for the points P and
\* -P of that u, y = (u - 1) / (u + 1); the scalar is clamped again; an
\* all-zero output throws.  Every u the code passes in is the u of a point
\* of the curve; a u of the twist is not modelled.
x25519scalarMult(scalar, u) ==
    Let(bytesToBigIntLE(u) % FIELD_P, LAMBDA pu :
      Then(FpInv(pu + 1), LAMBDA inverse :
        Let(((pu + FIELD_P - 1) * inverse) % FIELD_P, LAMBDA y :
          IF ~IsOnCurve(y) THEN Err("u is not on the curve")
          ELSE Let(MontgomeryU(PointMulUnsafe(PointOfY(y),
                                              bytesToBigIntLE(Clamp(scalar)))),
                   LAMBDA out :
                     IF out = 0
                     THEN Err("invalid private or public key received")
                     ELSE Ok(bigIntToBytesLE(out, KEY_LENGTH))))))

\* ed25519.getPublicKey(seed), as Keypair.generate() derives the public key
getPublicKey(seed) ==
    toRawBytes(PointMulUnsafe(BASE, seedToScalar(seed) % L))

\* the seeds Keypair.generate() can draw
Seeds == {bigIntToBytesLE(n, KEY_LENGTH) : n \in 0 .. (NSeeds - 1)}

\* ------------------------------------------------------------------------
\* Core stealth address functions
\* ------------------------------------------------------------------------

\* generateStealthKeys(), the two Keypair.generate() draws given
generateStealthKeys(viewingSeed, spendingSeed) ==
    [viewingPrivkey  |-> viewingSeed,
     spendingPrivkey |-> spendingSeed,
     metaAddress     |-> [viewingPubkey  |-> getPublicKey(viewingSeed),
                          spendingPubkey |-> getPublicKey(spendingSeed)]]

\* tweakScalar = bytesToBigInt(sha256(sharedSecret)) % L
TweakScalar(sharedSecret) == bytesToBigInt(sha256(sharedSecret)) % L

\* computeStealthAddressInternal(metaAddress); generated is the seed that
\* Keypair.generate() drew
computeStealthAddressInternal(metaAddress, generated) ==
    Then(extractScalar(generated \o getPublicKey(generated)),
         LAMBDA ephemeralSeed :
      Then(ed25519PubToX25519(metaAddress.viewingPubkey),
           LAMBDA viewingX25519Pub :
        Then(x25519scalarMult(ed25519SeedToX25519Priv(ephemeralSeed),
                              viewingX25519Pub),
             LAMBDA sharedSecret :
          Then(PointMultiply(BASE, TweakScalar(sharedSecret)),
               LAMBDA tweakPoint :
            Then(fromHex(metaAddress.spendingPubkey), LAMBDA spendingPoint :
              Ok([stealthPubkey    |-> toRawBytes(PointAdd(spendingPoint,
                                                           tweakPoint)),
                  ephemeralPubkey  |-> getPublicKey(generated),
                  ephemeralPrivkey |-> ephemeralSeed,
                  sharedSecret     |-> sharedSecret,
                  viewTag          |-> sha256(sharedSecret)[1]]))))))

\* computeStealthAddress that hands out all that the internal function
\* computed
computeStealthAddressRetaining(metaAddress, generated) ==
    computeStealthAddressInternal(metaAddress, generated)

\* computeStealthAddress that leaves the tweak out
computeStealthAddressUntweaked(metaAddress, generated) ==
    Then(computeStealthAddressInternal(metaAddress, generated),
         LAMBDA result :
      Ok([stealthPubkey   |-> toRawBytes(fromHex(metaAddress.spendingPubkey).val),
          ephemeralPubkey |-> result.ephemeralPubkey,
          viewTag         |-> result.viewTag]))

\* computeStealthAddress(metaAddress): the internal result without the
\* ephemeral private key and the shared secret
computeStealthAddress(metaAddress, generated) ==
    Then(computeStealthAddressInternal(metaAddress, generated),
         LAMBDA result :
      Ok([stealthPubkey   |-> result.stealthPubkey,
          ephemeralPubkey |-> result.ephemeralPubkey,
          viewTag         |-> result.viewTag]))

\* the receiver's shared secret
ReceiverSharedSecret(viewingPrivkey, ephemeralPubkey) ==
    Then(ed25519PubToX25519(ephemeralPubkey), LAMBDA ephemeralX25519Pub :
      x25519scalarMult(ed25519SeedToX25519Priv(viewingPrivkey),
                       ephemeralX25519Pub))

\* Keypair.fromSecretKey(secretKey), no skipValidation: the public key is
\* recomputed from the first half taken as a seed and must be the second half
KeypairFromSecretKey(secretKey) ==
    IF Len(secretKey) # 2 * KEY_LENGTH THEN Err("bad secret key size")
    ELSE LET publicKey == SubSeq(secretKey, KEY_LENGTH + 1, 2 * KEY_LENGTH)
             computedPublicKey == getPublicKey(SubSeq(secretKey, 1, KEY_LENGTH))
         IN  IF publicKey # computedPublicKey
             THEN Err("provided secretKey is invalid")
             ELSE Ok([publicKey |-> publicKey, secretKey |-> secretKey])

\* [scalar as seed || pubkey] handed to Keypair.fromSecretKey
createKeypairFromScalar(scalar, pubkey) ==
    KeypairFromSecretKey(bigIntToBytesLE(scalar, KEY_LENGTH) \o pubkey)

\* the stealth scalar (spendingScalar + tweakScalar) % L of steps 3 to 5
StealthScalar(sharedSecret, spendingPrivkey) ==
    (seedToScalar(spendingPrivkey) + TweakScalar(sharedSecret)) % L

\* deriveStealthKeypair(viewingPrivkey, spendingPrivkey, ephemeralPubkey)
deriveStealthKeypair(viewingPrivkey, spendingPrivkey, ephemeralPubkey) ==
    Then(ReceiverSharedSecret(viewingPrivkey, ephemeralPubkey),
         LAMBDA sharedSecret :
      Let(StealthScalar(sharedSecret, spendingPrivkey), LAMBDA stealthScalar :
        Then(PointMultiply(BASE, stealthScalar), LAMBDA stealthPoint :
          createKeypairFromScalar(stealthScalar, toRawBytes(stealthPoint)))))

\* checkViewTag reading the last byte of the tweak
checkViewTagLastByte(viewingPrivkey, ephemeralPubkey, viewTag) ==
    Then(ReceiverSharedSecret(viewingPrivkey, ephemeralPubkey),
         LAMBDA sharedSecret :
      Ok(sha256(sharedSecret)[KEY_LENGTH] = viewTag))

\* checkViewTag comparing with >= for ===
checkViewTagAtLeast(viewingPrivkey, ephemeralPubkey, viewTag) ==
    Then(ReceiverSharedSecret(viewingPrivkey, ephemeralPubkey),
         LAMBDA sharedSecret :
      Ok(sha256(sharedSecret)[1] >= viewTag))

\* checkViewTag(viewingPrivkey, ephemeralPubkey, viewTag)
checkViewTag(viewingPrivkey, ephemeralPubkey, viewTag) ==
    Then(ReceiverSharedSecret(viewingPrivkey, ephemeralPubkey),
         LAMBDA sharedSecret :
      Ok(sha256(sharedSecret)[1] = viewTag))

\* computeExpectedStealthAddress reading the tweak little-endian
computeExpectedStealthAddressLE(viewingPrivkey, spendingPubkey, ephemeralPubkey) ==
    Then(ReceiverSharedSecret(viewingPrivkey, ephemeralPubkey),
         LAMBDA sharedSecret :
      Then(PointMultiply(BASE, bytesToBigIntLE(sha256(sharedSecret)) % L),
           LAMBDA tweakPoint :
        Then(fromHex(spendingPubkey), LAMBDA spendingPoint :
          Ok(toRawBytes(PointAdd(spendingPoint, tweakPoint))))))

\* computeExpectedStealthAddress(viewingPrivkey, spendingPubkey, ephemeralPubkey)
computeExpectedStealthAddress(viewingPrivkey, spendingPubkey, ephemeralPubkey) ==
    Then(ReceiverSharedSecret(viewingPrivkey, ephemeralPubkey),
         LAMBDA sharedSecret :
      Then(PointMultiply(BASE, TweakScalar(sharedSecret)), LAMBDA tweakPoint :
        Then(fromHex(spendingPubkey), LAMBDA spendingPoint :
          Ok(toRawBytes(PointAdd(spendingPoint, tweakPoint))))))

\* getScalarFromKeypair(keypair)
getScalarFromKeypair(keypair) ==
    bytesToBigIntLE(SubSeq(keypair.secretKey, 1, KEY_LENGTH))

\* ------------------------------------------------------------------------
\* Ed25519 signatures (ed25519.sign, ed25519.verify)
\* ------------------------------------------------------------------------

\* the signature (R, S) of a scalar a with public key A and nonce r:
\* S = r + SHA-512(R || A || message) * a
SignatureOf(message, a, A, r) ==
    Then(PointMultiply(BASE, r), LAMBDA R :
      Ok(toRawBytes(R)
         \o bigIntToBytesLE(
              (r + (bytesToBigIntLE(sha512(toRawBytes(R) \o A \o message)) % L)
                   * a) % L,
              KEY_LENGTH)))

\* the signature of the key whose SHA-512 is h: the scalar is the clamped
\* first half and the nonce prefix the second
SignatureOfHash(message, h) ==
    Let(bytesToBigIntLE(Clamp(SubSeq(h, 1, KEY_LENGTH))) % L, LAMBDA a :
      SignatureOf(message, a, toRawBytes(PointMulUnsafe(BASE, a)),
                  bytesToBigIntLE(
                      sha512(SubSeq(h, KEY_LENGTH + 1, 2 * KEY_LENGTH)
                             \o message)) % L))

\* ed25519.sign(message, privateKey): the private key is a seed
ed25519sign(message, privateKey) ==
    SignatureOfHash(message, sha512(privateKey))

\* [8](R + kA - sB) = 0 for the points R, A and the scalar s
VerifyEquation(R, A, s, k) ==
    /\ s < L
    /\ PointMulUnsafe(PointAdd(R, PointMulUnsafe(A, k)), COFACTOR)
         = PointMulUnsafe(PointMulUnsafe(BASE, s), COFACTOR)

\* ed25519.verify(signature, message, publicKey)
ed25519verify(signature, message, publicKey) ==
    /\ Len(signature) = 2 * KEY_LENGTH
    /\ Then(fromHex(publicKey), LAMBDA A :
         Then(fromHex(SubSeq(signature, 1, KEY_LENGTH)), LAMBDA R :
           Ok(VerifyEquation(
                R, A,
                bytesToBigIntLE(SubSeq(signature, KEY_LENGTH + 1,
                                       2 * KEY_LENGTH)),
                bytesToBigIntLE(sha512(SubSeq(signature, 1, KEY_LENGTH)
                                       \o publicKey \o message)) % L))))
       = Ok(TRUE)

\* signWithScalar(message, scalar, pubkey): the extended key is the
\* scalar's bytes and a prefix, but ed25519.sign gets its first half only,
\* as a private key; prefix and pubkey are not used
signWithScalar(message, scalar, pubkey) ==
    LET scalarBytes == bigIntToBytesLE(scalar, KEY_LENGTH)
        prefix == SubSeq(sha512(scalarBytes), KEY_LENGTH + 1, 2 * KEY_LENGTH)
        extendedKey == scalarBytes \o prefix
    IN  ed25519sign(message, SubSeq(extendedKey, 1, KEY_LENGTH))

\* ------------------------------------------------------------------------
\* State
\* ------------------------------------------------------------------------

VARIABLES
    keys,       \* StealthAccount.keys of each account
    payments,   \* the StealthPayment objects created so far
    call,       \* the last call of a core function and what it returned
    scan,       \* the scanAnnouncements call in progress
    txs         \* the transactions withdraw has signed and sent

vars == <<keys, payments, call, scan, txs>>

Messages == {<<0>>, <<1, 2>>}

\* public keys that no payment announced: the identity, the point of
\* order 2, and bytes that are no point
ProbeKeys ==
    {toRawBytes(ZERO), toRawBytes([k |-> 0, tor |-> 1]),
     bigIntToBytesLE(SignBit - 1, KEY_LENGTH)}

NoCall ==
    [op |-> "none", acct |-> "A", ephemeralPubkey |-> <<>>, viewTag |-> 0,
     message |-> <<>>, scalar |-> 0, pubkey |-> <<>>, result |-> Err("none")]

\* no scan yet.  queried and derived are history: the indices of the
\* announcements connection.getBalance and account.deriveKeypair were
\* called for.
NoScan ==
    [pc |-> "idle", acct |-> "A", announcements |-> <<>>, i |-> 1,
     discovered |-> <<>>, queried |-> {}, derived |-> {}, error |-> ""]

\* new StealthAccount() for each account
Init ==
    /\ keys \in [Accounts -> {generateStealthKeys(v, s) : v \in Seeds, s \in Seeds}]
    /\ payments = <<>>
    /\ call = NoCall
    /\ scan = NoScan
    /\ txs = <<>>

AnnouncedKeys == {payments[n].ephemeralPubkey : n \in 1 .. Len(payments)}

\* The core functions are pure: what a call returns depends on the keys and
\* the payments only.  A behaviour therefore observes one of these calls
\* after the payments it looks at.
Unobserved == call.op \in {"none", "computeStealthAddress"}

\* ------------------------------------------------------------------------
\* Operations of the core and of StealthAccount
\* ------------------------------------------------------------------------

\* the StealthPayment of a result of computeStealthAddress.  recipient and
\* sharedSecret are history, not fields of the object.
NewPayment(a, internal) ==
    [stealthAddress  |-> internal.stealthPubkey,
     ephemeralPubkey |-> internal.ephemeralPubkey,
     viewTag         |-> internal.viewTag,
     recipient       |-> a,
     sharedSecret    |-> internal.sharedSecret]

PaymentsWith(a, internal) ==
    IF internal.ok THEN Append(payments, NewPayment(a, internal.val))
    ELSE payments

\* StealthPayment.create(recipient): computeStealthAddress with a fresh
\* ephemeral keypair; the payment keeps the three results.  Payments are
\* created before the call that is observed and before the scan.
CreatePayment(a, generated) ==
    /\ Len(payments) < MaxPayments
    /\ Unobserved
    /\ scan.pc = "idle"
    /\ call' = [NoCall EXCEPT
                  !.op = "computeStealthAddress", !.acct = a,
                  !.result = computeStealthAddress(keys[a].metaAddress,
                                                   generated)]
    /\ payments' = PaymentsWith(a, computeStealthAddressInternal(
                                       keys[a].metaAddress, generated))
    /\ UNCHANGED <<keys, scan, txs>>

\* StealthAccount.deriveKeypair(ephemeralPubkey)
DeriveKeypair(a, ephemeralPubkey) ==
    /\ Unobserved
    /\ call' = [NoCall EXCEPT
                  !.op = "deriveStealthKeypair", !.acct = a,
                  !.ephemeralPubkey = ephemeralPubkey,
                  !.result = deriveStealthKeypair(keys[a].viewingPrivkey,
                                                  keys[a].spendingPrivkey,
                                                  ephemeralPubkey)]
    /\ UNCHANGED <<keys, payments, scan, txs>>

\* StealthAccount.checkViewTag that counts the payments into the tag
CheckViewTagCounting(a, ephemeralPubkey, viewTag) ==
    /\ Unobserved
    /\ call' = [NoCall EXCEPT
                  !.op = "checkViewTag", !.acct = a,
                  !.ephemeralPubkey = ephemeralPubkey, !.viewTag = viewTag,
                  !.result = checkViewTag(keys[a].viewingPrivkey,
                                          ephemeralPubkey,
                                          (viewTag + Len(payments)) % ByteMod)]
    /\ UNCHANGED <<keys, payments, scan, txs>>

\* StealthAccount.checkViewTag(ephemeralPubkey, viewTag)
CheckViewTag(a, ephemeralPubkey, viewTag) ==
    /\ Unobserved
    /\ call' = [NoCall EXCEPT
                  !.op = "checkViewTag", !.acct = a,
                  !.ephemeralPubkey = ephemeralPubkey, !.viewTag = viewTag,
                  !.result = checkViewTag(keys[a].viewingPrivkey,
                                          ephemeralPubkey, viewTag)]
    /\ UNCHANGED <<keys, payments, scan, txs>>

\* StealthAccount.computeExpectedAddress(ephemeralPubkey)
ComputeExpectedAddress(a, ephemeralPubkey) ==
    /\ Unobserved
    /\ call' = [NoCall EXCEPT
                  !.op = "computeExpectedStealthAddress", !.acct = a,
                  !.ephemeralPubkey = ephemeralPubkey,
                  !.result = computeExpectedStealthAddress(
                                 keys[a].viewingPrivkey,
                                 keys[a].metaAddress.spendingPubkey,
                                 ephemeralPubkey)]
    /\ UNCHANGED <<keys, payments, scan, txs>>

\* the stealth scalars of the payments, as their recipients derive them
StealthScalars ==
    {StealthScalar(payments[n].sharedSecret,
                   keys[payments[n].recipient].spendingPrivkey) :
        n \in 1 .. Len(payments)}

\* signWithScalar(message, scalar, pubkey) for a scalar-form key: a scalar
\* in [0, L) and its public key scalar * B
SignWithScalar(message, scalar) ==
    /\ Unobserved
    /\ call' = [NoCall EXCEPT
                  !.op = "signWithScalar", !.message = message,
                  !.scalar = scalar,
                  !.pubkey = toRawBytes(PointMulUnsafe(BASE, scalar)),
                  !.result = signWithScalar(
                                 message, scalar,
                                 toRawBytes(PointMulUnsafe(BASE, scalar)))]
    /\ UNCHANGED <<keys, payments, scan, txs>>

\* ------------------------------------------------------------------------
\* StealthScanner
\* ------------------------------------------------------------------------

\* StealthPayment.getAnnouncement()
getAnnouncement(payment) ==
    [ephemeralPubkey |-> payment.ephemeralPubkey,
     viewTag         |-> payment.viewTag,
     stealthAddress  |-> payment.stealthAddress]

\* what a scanner is handed besides the announcements of the payments: an
\* announcement with another view tag, one that claims another address,
\* and ones whose ephemeral key no payment announced
Forgeries(ann) ==
    {[ann EXCEPT !.viewTag = (@ + 1) % ByteMod],
     [ann EXCEPT !.stealthAddress = toRawBytes(BASE)]}
    \cup {[ann EXCEPT !.ephemeralPubkey = E] : E \in ProbeKeys}

Candidates ==
    UNION {{getAnnouncement(payments[n])}
           \cup Forgeries(getAnnouncement(payments[n])) :
              n \in 1 .. Len(payments)}

ScanInputs ==
    UNION {[1 .. n -> Candidates] : n \in 0 .. MaxAnnouncements}

\* lamports connection.getBalance resolves to
Balances == {0, 5000, 5001, 890881}

\* lamports connection.getMinimumBalanceForRentExemption(0) resolves to
RentExemptions == {890880}

RECURSIVE RunScan(_, _)

\* the loop without the comparison of the addresses
ScanAnnouncementTagOnly(account, sc, tagMatches, expectedAddress) ==
    IF ~tagMatches.ok
    THEN [sc EXCEPT !.pc = "failed", !.error = tagMatches.err]
    ELSE IF ~tagMatches.val
    THEN RunScan(account, [sc EXCEPT !.i = @ + 1])
    ELSE IF ~expectedAddress.ok
    THEN [sc EXCEPT !.pc = "failed", !.error = expectedAddress.err]
    ELSE [sc EXCEPT !.pc = "await", !.queried = @ \cup {sc.i}]

\* the loop throwing where the addresses differ
ScanAnnouncementThrowing(account, sc, tagMatches, expectedAddress) ==
    IF ~tagMatches.ok
    THEN [sc EXCEPT !.pc = "failed", !.error = tagMatches.err]
    ELSE IF ~tagMatches.val
    THEN RunScan(account, [sc EXCEPT !.i = @ + 1])
    ELSE IF ~expectedAddress.ok
    THEN [sc EXCEPT !.pc = "failed", !.error = expectedAddress.err]
    ELSE IF expectedAddress.val # sc.announcements[sc.i].stealthAddress
    THEN [sc EXCEPT !.pc = "failed", !.error = "address mismatch"]
    ELSE [sc EXCEPT !.pc = "await", !.queried = @ \cup {sc.i}]

\* the loop going on to the next announcement where checkViewTag or
\* computeExpectedAddress throws
ScanAnnouncementSkipping(account, sc, tagMatches, expectedAddress) ==
    IF ~tagMatches.ok
    THEN RunScan(account, [sc EXCEPT !.i = @ + 1])
    ELSE IF ~tagMatches.val
    THEN RunScan(account, [sc EXCEPT !.i = @ + 1])
    ELSE IF ~expectedAddress.ok
    THEN RunScan(account, [sc EXCEPT !.i = @ + 1])
    ELSE IF expectedAddress.val # sc.announcements[sc.i].stealthAddress
    THEN RunScan(account, [sc EXCEPT !.i = @ + 1])
    ELSE [sc EXCEPT !.pc = "await", !.queried = @ \cup {sc.i}]

\* one announcement of the loop of scanAnnouncements, the results of
\* checkViewTag and computeExpectedAddress given: a throw of either ends
\* the scan, a view tag or an address that does not match goes on to the
\* next announcement, and a match awaits getBalance
ScanAnnouncement(account, sc, tagMatches, expectedAddress) ==
    IF ~tagMatches.ok
    THEN [sc EXCEPT !.pc = "failed", !.error = tagMatches.err]
    ELSE IF ~tagMatches.val
    THEN RunScan(account, [sc EXCEPT !.i = @ + 1])
    ELSE IF ~expectedAddress.ok
    THEN [sc EXCEPT !.pc = "failed", !.error = expectedAddress.err]
    ELSE IF expectedAddress.val # sc.announcements[sc.i].stealthAddress
    THEN RunScan(account, [sc EXCEPT !.i = @ + 1])
    ELSE [sc EXCEPT !.pc = "await", !.queried = @ \cup {sc.i}]

\* scanAnnouncements from the head of the loop to where it next gives up
\* control: the await of getBalance, the return, or a throw
RunScan(account, sc) ==
    IF sc.i > Len(sc.announcements) THEN [sc EXCEPT !.pc = "done"]
    ELSE ScanAnnouncement(
           account, sc,
           checkViewTag(account.viewingPrivkey,
                        sc.announcements[sc.i].ephemeralPubkey,
                        sc.announcements[sc.i].viewTag),
           computeExpectedStealthAddress(
               account.viewingPrivkey,
               account.metaAddress.spendingPubkey,
               sc.announcements[sc.i].ephemeralPubkey))

\* discovered.push(...) with the keypair deriveKeypair returned; its throw
\* ends the scan
PushDiscovered(account, sc, balance, keypair) ==
    IF ~keypair.ok
    THEN [sc EXCEPT !.pc = "failed", !.error = keypair.err,
                    !.derived = @ \cup {sc.i}]
    ELSE RunScan(account,
           [sc EXCEPT
              !.derived = @ \cup {sc.i},
              !.discovered =
                 Append(@, [stealthAddress  |-> sc.announcements[sc.i].stealthAddress,
                            ephemeralPubkey |-> sc.announcements[sc.i].ephemeralPubkey,
                            balance         |-> balance,
                            keypair         |-> keypair.val,
                            index           |-> sc.i]),
              !.i = @ + 1])

\* scanAnnouncements once getBalance has resolved: a positive balance
\* derives the keypair and pushes the payment; then the loop goes on
ResumeScan(account, sc, balance) ==
    IF balance > 0
    THEN PushDiscovered(
           account, sc, balance,
           deriveStealthKeypair(account.viewingPrivkey,
                                account.spendingPrivkey,
                                sc.announcements[sc.i].ephemeralPubkey))
    ELSE RunScan(account, [sc EXCEPT !.i = @ + 1])

\* scanner.scanAnnouncements(announcements) is called
ScanStart(a, announcements) ==
    /\ scan.pc = "idle"
    /\ txs = <<>>
    /\ scan' = RunScan(keys[a], [NoScan EXCEPT !.pc = "loop", !.acct = a,
                                               !.announcements = announcements])
    /\ UNCHANGED <<keys, payments, call, txs>>

\* connection.getBalance resolves
BalanceResolved(balance) ==
    /\ scan.pc = "await"
    /\ scan' = ResumeScan(keys[scan.acct], scan, balance)
    /\ UNCHANGED <<keys, payments, call, txs>>

\* connection.getBalance rejects: the scan rejects with the same error
BalanceRejected ==
    /\ scan.pc = "await"
    /\ scan' = [scan EXCEPT !.pc = "failed", !.error = "getBalance failed"]
    /\ UNCHANGED <<keys, payments, call, txs>>

\* the bytes of a transaction with one SystemProgram.transfer instruction
\* (tx.serializeMessage(); the blockhash is left out)
TransferMessage(fromPubkey, toPubkey, lamports) ==
    fromPubkey \o toPubkey \o bigIntToBytesLE(lamports, KEY_LENGTH)

\* the transaction as the cluster sees it: it is confirmed only if the
\* signature verifies under the account that pays
Submitted(fromPubkey, toPubkey, lamports, signer, signature) ==
    [fromPubkey |-> fromPubkey, toPubkey |-> toPubkey, lamports |-> lamports,
     signer |-> signer, signature |-> signature,
     status |-> IF /\ signature.ok
                   /\ signer.publicKey = fromPubkey
                   /\ ed25519verify(signature.val,
                                    TransferMessage(fromPubkey, toPubkey,
                                                    lamports),
                                    fromPubkey)
                THEN "confirmed" ELSE "rejected"]

\* sendAndConfirmTransaction(connection, tx, [signer]) of @solana/web3.js:
\* tx.sign(signer) signs the message with the first half of
\* signer.secretKey as an Ed25519 seed
SendAndConfirm(fromPubkey, toPubkey, lamports, signer) ==
    Submitted(fromPubkey, toPubkey, lamports, signer,
              ed25519sign(TransferMessage(fromPubkey, toPubkey, lamports),
                          SubSeq(signer.secretKey, 1, KEY_LENGTH)))

\* lamports withdraw leaves for the transaction fee
TX_FEE_RESERVE == 5000

\* payment.balance - rentExempt, or payment.balance - 5000
AmountToSend(payment, leaveRent, rentExempt) ==
    IF leaveRent THEN payment.balance - rentExempt
    ELSE payment.balance - TX_FEE_RESERVE

\* withdraw that refuses a negative amount only
withdrawNegativeOnly(payment, destination, leaveRent, rentExempt) ==
    IF AmountToSend(payment, leaveRent, rentExempt) < 0
    THEN Err("Insufficient balance")
    ELSE Ok(SendAndConfirm(payment.stealthAddress, destination,
                           AmountToSend(payment, leaveRent, rentExempt),
                           payment.keypair))

\* StealthScanner.withdraw(payment, destination, leaveRent), with what
\* getMinimumBalanceForRentExemption resolved to
withdraw(payment, destination, leaveRent, rentExempt) ==
    IF AmountToSend(payment, leaveRent, rentExempt) <= 0
    THEN Err("Insufficient balance")
    ELSE Ok(SendAndConfirm(payment.stealthAddress, destination,
                           AmountToSend(payment, leaveRent, rentExempt),
                           payment.keypair))

Destinations == {getPublicKey(seed) : seed \in Seeds}

\* the payment of a recipient with the key deriveStealthKeypair computes
\* for it: the stealth scalar, little-endian, then its public key, held
\* in a Keypair that was constructed from the two without a check
ScalarFormPayment(n, balance, stealthScalar) ==
    [stealthAddress  |-> payments[n].stealthAddress,
     ephemeralPubkey |-> payments[n].ephemeralPubkey,
     balance         |-> balance,
     keypair         |->
        [publicKey |-> toRawBytes(PointMulUnsafe(BASE, stealthScalar)),
         secretKey |-> bigIntToBytesLE(stealthScalar, KEY_LENGTH)
                       \o toRawBytes(PointMulUnsafe(BASE, stealthScalar))],
     index           |-> n]

ScalarFormPayments ==
    {ScalarFormPayment(n, balance,
                       StealthScalar(payments[n].sharedSecret,
                                     keys[payments[n].recipient].spendingPrivkey)) :
        n \in 1 .. Len(payments), balance \in Balances}

\* the payments withdraw is called with: what a finished scan returned,
\* or, before any scan, the scalar-form payments
Withdrawable ==
    IF scan.pc = "done"
    THEN {scan.discovered[n] : n \in 1 .. Len(scan.discovered)}
    ELSE IF scan.pc = "idle" THEN ScalarFormPayments
    ELSE {}

\* what the caller of withdraw gets: the signature of the confirmed
\* transaction, or the error
WithdrawResult(result) ==
    IF ~result.ok THEN result
    ELSE IF result.val.status = "confirmed" THEN Ok(result.val.signature.val)
    ELSE Err("Transaction signature verification failure")

TxsWith(result) == IF result.ok THEN Append(txs, result.val) ELSE txs

\* scanner.withdraw(payment, destination, leaveRent) runs to its end
Withdraw(payment, destination, leaveRent, rentExempt) ==
    /\ Len(txs) < MaxWithdrawals
    /\ call' = [NoCall EXCEPT
                  !.op = "withdraw",
                  !.result = WithdrawResult(withdraw(payment, destination,
                                                     leaveRent, rentExempt))]
    /\ txs' = TxsWith(withdraw(payment, destination, leaveRent, rentExempt))
    /\ UNCHANGED <<keys, payments, scan>>

\* ------------------------------------------------------------------------
\* Base58 (bs58) and the meta-address codec (encoding.ts)
\* ------------------------------------------------------------------------

\* A string is the sequence of its characters.  The alphabet of bs58,
\* scaled down with the byte: its first characters, "1" for the digit 0.
ALPHABET ==
    <<"1", "2", "3", "4", "5", "6", "7", "8", "9",
      "A", "B", "C", "D", "E", "F", "G", "H">>

Base58Chars == {ALPHABET[i] : i \in 1 .. Len(ALPHABET)}

DigitOf(char) == (CHOOSE i \in 1 .. Len(ALPHABET) : ALPHABET[i] = char) - 1

RECURSIVE LeadingCount(_, _)
\* how many times x stands at the head of seq
LeadingCount(seq, x) ==
    IF seq = <<>> \/ seq[1] # x THEN 0
    ELSE 1 + LeadingCount(Tail(seq), x)

RECURSIVE ToDigits(_)
\* the digits of a number in the alphabet, most significant first, none for 0
ToDigits(n) ==
    IF n = 0 THEN <<>>
    ELSE Append(ToDigits(n \div Len(ALPHABET)), ALPHABET[(n % Len(ALPHABET)) + 1])

RECURSIVE FromDigits(_)
FromDigits(chars) ==
    IF chars = <<>> THEN 0
    ELSE FromDigits(SubSeq(chars, 1, Len(chars) - 1)) * Len(ALPHABET)
         + DigitOf(chars[Len(chars)])

RECURSIVE ToBytes(_)
\* the bytes of a number, big-endian, none for 0
ToBytes(n) ==
    IF n = 0 THEN <<>>
    ELSE Append(ToBytes(n \div ByteMod), n % ByteMod)

Repeat(x, n) == [i \in 1 .. n |-> x]

DropFirst(seq, n) == SubSeq(seq, n + 1, Len(seq))

\* bs58.encode without the "1" for each leading zero byte
bs58encodeNumberOnly(source) == ToDigits(bytesToBigInt(source))

\* bs58.encode(source): a "1" for each leading zero byte, then the digits
\* of the rest read as a big-endian number
bs58encode(source) ==
    Repeat(ALPHABET[1], LeadingCount(source, 0))
    \o ToDigits(bytesToBigInt(DropFirst(source, LeadingCount(source, 0))))

\* bs58.decode(string): throws on a character outside the alphabet
bs58decode(string) ==
    IF \E i \in 1 .. Len(string) : string[i] \notin Base58Chars
    THEN Err("Non-base58 character")
    ELSE Ok(Repeat(0, LeadingCount(string, ALPHABET[1]))
            \o ToBytes(FromDigits(DropFirst(string,
                                            LeadingCount(string, ALPHABET[1])))))

PREFIX == <<"s", "t", ":", "s", "o", "l", ":">>

startsWith(string, prefix) ==
    /\ Len(string) >= Len(prefix)
    /\ SubSeq(string, 1, Len(prefix)) = prefix

\* encodeMetaAddress(meta)
encodeMetaAddress(meta) ==
    IF Len(meta.viewingPubkey) # KEY_LENGTH
    THEN Err("Invalid viewing pubkey length")
    ELSE IF Len(meta.spendingPubkey) # KEY_LENGTH
    THEN Err("Invalid spending pubkey length")
    ELSE Ok(PREFIX \o bs58encode(meta.viewingPubkey \o meta.spendingPubkey))

\* what decodeMetaAddress makes of the decoded payload
SplitMetaAddress(combined) ==
    IF Len(combined) # KEY_LENGTH * 2
    THEN Err("Invalid stealth address length")
    ELSE Ok([viewingPubkey  |-> SubSeq(combined, 1, KEY_LENGTH),
             spendingPubkey |-> DropFirst(combined, KEY_LENGTH)])

\* decodeMetaAddress that lets a longer payload pass
decodeMetaAddressAtLeast(encoded) ==
    IF ~startsWith(encoded, PREFIX)
    THEN Err("Invalid stealth address format")
    ELSE IF ~bs58decode(DropFirst(encoded, Len(PREFIX))).ok
    THEN Err("Invalid base58 encoding in stealth address")
    ELSE IF Len(bs58decode(DropFirst(encoded, Len(PREFIX))).val) < KEY_LENGTH * 2
    THEN Err("Invalid stealth address length")
    ELSE Ok([viewingPubkey  |->
                SubSeq(bs58decode(DropFirst(encoded, Len(PREFIX))).val,
                       1, KEY_LENGTH),
             spendingPubkey |->
                DropFirst(bs58decode(DropFirst(encoded, Len(PREFIX))).val,
                          KEY_LENGTH)])

\* decodeMetaAddress(encoded)
decodeMetaAddress(encoded) ==
    IF ~startsWith(encoded, PREFIX)
    THEN Err("Invalid stealth address format")
    ELSE IF ~bs58decode(DropFirst(encoded, Len(PREFIX))).ok
    THEN Err("Invalid base58 encoding in stealth address")
    ELSE SplitMetaAddress(bs58decode(DropFirst(encoded, Len(PREFIX))).val)

\* isValidMetaAddress(encoded): true if decodeMetaAddress returns, false
\* if it throws
isValidMetaAddress(encoded) == Ok(decodeMetaAddress(encoded).ok)

\* ------------------------------------------------------------------------
\* JSON (JSON.stringify, JSON.parse) and the announcement codec (sdk.ts)
\* ------------------------------------------------------------------------

\* A JSON text is the sequence of its tokens: the punctuation, strings
\* (their characters), numbers (their decimal digits) and null.
Punct(c) == [tok |-> c]

StringToken(chars) == [tok |-> "string", val |-> chars]

NumberToken(digits) == [tok |-> "number", val |-> digits]

NullToken == [tok |-> "null"]

\* the values of JavaScript that the codec meets
JsString(chars) == [type |-> "string", val |-> chars]

JsNumber(n) == [type |-> "number", num |-> n]

JsNull == [type |-> "null"]

Undefined == [type |-> "undefined"]

JsObject(fields) == [type |-> "object", fields |-> fields]

DecimalDigits == <<"0", "1", "2", "3", "4", "5", "6", "7", "8", "9">>

RECURSIVE NaturalToString(_)
NaturalToString(n) ==
    IF n < Len(DecimalDigits) THEN <<DecimalDigits[n + 1]>>
    ELSE Append(NaturalToString(n \div Len(DecimalDigits)),
                DecimalDigits[(n % Len(DecimalDigits)) + 1])

\* String(n) for an integer
NumberToString(n) ==
    IF n < 0 THEN <<"-">> \o NaturalToString(0 - n) ELSE NaturalToString(n)

RECURSIVE ParseNatural(_)
ParseNatural(digits) ==
    IF digits = <<>> THEN 0
    ELSE ParseNatural(SubSeq(digits, 1, Len(digits) - 1)) * Len(DecimalDigits)
         + (CHOOSE d \in 1 .. Len(DecimalDigits) :
               DecimalDigits[d] = digits[Len(digits)]) - 1

ParseNumber(digits) ==
    IF digits[1] = "-" THEN 0 - ParseNatural(Tail(digits))
    ELSE ParseNatural(digits)

\* the token of a value, and the value of a token
TokenOf(value) ==
    IF value.type = "string" THEN StringToken(value.val)
    ELSE IF value.type = "number" THEN NumberToken(NumberToString(value.num))
    ELSE NullToken

ValueOf(token) ==
    IF token.tok = "string" THEN JsString(token.val)
    ELSE IF token.tok = "number" THEN JsNumber(ParseNumber(token.val))
    ELSE JsNull

IsValueToken(token) == token.tok \in {"string", "number", "null"}

RECURSIVE StringifyMembers(_)
\* "key":value,"key":value of the members, in their order
StringifyMembers(members) ==
    IF members = <<>> THEN <<>>
    ELSE <<StringToken(members[1][1]), Punct(":"), TokenOf(members[1][2])>>
         \o (IF Len(members) = 1 THEN <<>> ELSE <<Punct(",")>>)
         \o StringifyMembers(Tail(members))

\* JSON.stringify(data) of an object literal: its members in the order
\* they were written
JSONstringify(members) ==
    <<Punct("{")>> \o StringifyMembers(members) \o <<Punct("}")>>

WithField(fields, key, value) ==
    [k \in (DOMAIN fields) \cup {key} |-> IF k = key THEN value ELSE fields[k]]

RECURSIVE ParseMembers(_, _)
\* the members between the braces; a later member replaces an earlier one
\* of the same key
ParseMembers(tokens, fields) ==
    IF \/ Len(tokens) < 3
       \/ tokens[1].tok # "string"
       \/ tokens[2] # Punct(":")
       \/ ~IsValueToken(tokens[3])
    THEN Err("SyntaxError")
    ELSE IF Len(tokens) = 3
    THEN Ok(JsObject(WithField(fields, tokens[1].val, ValueOf(tokens[3]))))
    ELSE IF tokens[4] # Punct(",") THEN Err("SyntaxError")
    ELSE ParseMembers(DropFirst(tokens, 4),
                      WithField(fields, tokens[1].val, ValueOf(tokens[3])))

\* JSON.parse(text): a value, or an object of values
JSONparse(text) ==
    IF Len(text) = 1 /\ IsValueToken(text[1]) THEN Ok(ValueOf(text[1]))
    ELSE IF \/ Len(text) < 2
            \/ text[1] # Punct("{")
            \/ text[Len(text)] # Punct("}")
    THEN Err("SyntaxError")
    ELSE IF Len(text) = 2 THEN Ok(JsObject(<<>>))
    ELSE ParseMembers(SubSeq(text, 2, Len(text) - 1), <<>>)

\* parsed.key: a TypeError on null, undefined for what is not there
Get(parsed, key) ==
    IF parsed.type = "null" THEN Err("TypeError")
    ELSE IF parsed.type = "object" /\ key \in DOMAIN parsed.fields
    THEN Ok(parsed.fields[key])
    ELSE Ok(Undefined)

ANNOUNCEMENT_VERSION == 1

ANNOUNCEMENT_TAG == <<"S", "T", "E", "A", "L", "T", "H">>

KeyV == <<"v">>

KeyT == <<"t">>

KeyE == <<"e">>

KeyVT == <<"v", "t">>

KeyS == <<"s">>

\* the object literal of serializeAnnouncement, for a version number
AnnouncementData(announcement, version) ==
    << <<KeyV, JsNumber(version)>>,
       <<KeyT, JsString(ANNOUNCEMENT_TAG)>>,
       <<KeyE, JsString(bs58encode(announcement.ephemeralPubkey))>>,
       <<KeyVT, JsNumber(announcement.viewTag)>>,
       <<KeyS, JsString(bs58encode(announcement.stealthAddress))>> >>

\* serializeAnnouncement writing the address as e and the key as s
serializeAnnouncementSwapped(announcement) ==
    JSONstringify(AnnouncementData(
        [announcement EXCEPT !.ephemeralPubkey = announcement.stealthAddress,
                             !.stealthAddress = announcement.ephemeralPubkey],
        ANNOUNCEMENT_VERSION))

\* serializeAnnouncement(announcement)
serializeAnnouncement(announcement) ==
    JSONstringify(AnnouncementData(announcement, ANNOUNCEMENT_VERSION))

\* bs58.decode(value): throws on what is no string
bs58decodeValue(value) ==
    IF value.type # "string" THEN Err("Expected String")
    ELSE bs58decode(value.val)

\* new PublicKey(value) for a string or undefined: the string must decode
\* to the bytes of one key
PublicKeyOf(value) ==
    IF value.type # "string" THEN Err("TypeError")
    ELSE Then(bs58decode(value.val), LAMBDA decoded :
           IF Len(decoded) # KEY_LENGTH THEN Err("Invalid public key input")
           ELSE Ok(decoded))

\* viewTag: parsed.vt, a number where the text has one
ViewTagOf(value) == IF value.type = "number" THEN value.num ELSE value

\* the object deserializeAnnouncement returns for a parsed object
AnnouncementOf(parsed) ==
    Then(bs58decodeValue(Get(parsed, KeyE).val), LAMBDA ephemeralPubkey :
      Then(PublicKeyOf(Get(parsed, KeyS).val), LAMBDA stealthAddress :
        Ok([ephemeralPubkey |-> ephemeralPubkey,
            viewTag         |-> ViewTagOf(Get(parsed, KeyVT).val),
            stealthAddress  |-> stealthAddress])))

\* catch { return null }
CatchNull(r) == IF r.ok THEN r ELSE Ok(JsNull)

\* deserializeAnnouncement that accepts its own version only
deserializeAnnouncementSameVersion(data) ==
    CatchNull(
      Then(JSONparse(data), LAMBDA parsed :
        Then(Get(parsed, KeyT), LAMBDA t :
          IF t # JsString(ANNOUNCEMENT_TAG) THEN Ok(JsNull)
          ELSE IF Get(parsed, KeyV).val # JsNumber(ANNOUNCEMENT_VERSION)
          THEN Ok(JsNull)
          ELSE IF DOMAIN parsed.fields # {KeyV, KeyT, KeyE, KeyVT, KeyS}
          THEN Ok(JsNull)
          ELSE AnnouncementOf(parsed))))

\* deserializeAnnouncement(data)
deserializeAnnouncement(data) ==
    CatchNull(
      Then(JSONparse(data), LAMBDA parsed :
        Then(Get(parsed, KeyT), LAMBDA t :
          IF t # JsString(ANNOUNCEMENT_TAG) THEN Ok(JsNull)
          ELSE AnnouncementOf(parsed))))

\* ------------------------------------------------------------------------
\* Calls of the codecs
\* ------------------------------------------------------------------------

KeyBytes == [1 .. KEY_LENGTH -> Byte]

\* the meta-addresses encodeMetaAddress is called with: every pair of
\* keys, and keys of another length
MetaAddresses ==
    {[viewingPubkey |-> v, spendingPubkey |-> s] :
        v \in KeyBytes, s \in KeyBytes}
    \cup {[viewingPubkey |-> <<0>>, spendingPubkey |-> <<0, 0>>],
          [viewingPubkey |-> <<0, 0>>, spendingPubkey |-> <<0, 0, 0>>]}

\* the keys of the strings and texts that are garbled: keys that are no
\* point or a point of small order, keys of seeds, and zero bytes
WireKeys == ProbeKeys \cup Destinations \cup {Repeat(0, KEY_LENGTH)}

\* what a string that was encoded turns into on its way
Garbled(encoded) ==
    {encoded,
     SubSeq(encoded, 1, Len(encoded) - 1),
     Append(encoded, ALPHABET[1]),
     Append(encoded, ALPHABET[Len(ALPHABET)]),
     Append(encoded, "0"),
     DropFirst(encoded, Len(PREFIX)),
     <<"s", "t", ":", "e", "t", "h", ":">> \o DropFirst(encoded, Len(PREFIX))}

\* the strings decodeMetaAddress and isValidMetaAddress are called with
EncodedInputs ==
    UNION {Garbled(encodeMetaAddress([viewingPubkey |-> v,
                                      spendingPubkey |-> s]).val) :
              v \in WireKeys, s \in WireKeys}
    \cup {<<"i", "n", "v", "a", "l", "i", "d">>,
          PREFIX,
          <<"s", "t", ":", "e", "t", "h", ":", "A", "B", "C">>}

\* the announcements serializeAnnouncement is called with
Announcements ==
    {[ephemeralPubkey |-> E, viewTag |-> vt, stealthAddress |-> S] :
        E \in KeyBytes, vt \in Byte, S \in KeyBytes}

Without(members, key) == SelectSeq(members, LAMBDA m : m[1] # key)

Replaced(members, key, value) ==
    [i \in 1 .. Len(members) |->
        IF members[i][1] = key THEN <<key, value>> ELSE members[i]]

Unknown == <<<<"x">>, JsString(<<"y">>)>>

\* texts that keep t, e, vt and s: another version, no version, unknown
\* fields
Compatible(members) ==
    {members,
     Replaced(members, KeyV, JsNumber(ANNOUNCEMENT_VERSION + 1)),
     Without(members, KeyV),
     Append(members, Unknown),
     <<Unknown>> \o Replaced(members, KeyV, JsNumber(ANNOUNCEMENT_VERSION + 1))}

\* texts with t, e, vt or s changed or gone
Damaged(members) ==
    {Replaced(members, KeyT, JsString(<<"O", "T", "H", "E", "R">>)),
     Without(members, KeyT),
     Replaced(members, KeyE, JsString(<<"0">>)),
     Replaced(members, KeyE, JsString(<<ALPHABET[2]>>)),
     Without(members, KeyE),
     Replaced(members, KeyS, JsString(<<"0">>)),
     Replaced(members, KeyS, JsString(<<ALPHABET[2]>>)),
     Without(members, KeyS),
     Replaced(members, KeyVT, JsNumber(ByteMod)),
     Replaced(members, KeyVT, JsNumber(0 - 1)),
     Replaced(members, KeyVT, JsString(<<"7">>)),
     Without(members, KeyVT)}

\* the texts deserializeAnnouncement is called with
Texts ==
    UNION {{JSONstringify(m) : m \in Compatible(AnnouncementData(a, ANNOUNCEMENT_VERSION))
                                     \cup Damaged(AnnouncementData(a, ANNOUNCEMENT_VERSION))}
           \cup {SubSeq(serializeAnnouncement(a), 1,
                        Len(serializeAnnouncement(a)) - 1)} :
              a \in {[ephemeralPubkey |-> E, viewTag |-> vt,
                       stealthAddress |-> S] :
                         E \in WireKeys, vt \in Byte, S \in WireKeys}}
    \cup {<<>>,
          <<[tok |-> "word", val |-> <<"i", "n", "v", "a", "l", "i", "d">>]>>,
          <<Punct("{"), Punct("}")>>,
          <<NullToken>>,
          <<NumberToken(<<"5">>)>>}

\* the record of a call of a codec function; a behaviour observes one call
CodecCall(op, input, result) == [op |-> op, input |-> input, result |-> result]

EncodeMetaAddress(meta) ==
    /\ call = NoCall
    /\ call' = CodecCall("encodeMetaAddress", meta, encodeMetaAddress(meta))
    /\ UNCHANGED <<keys, payments, scan, txs>>

DecodeMetaAddress(encoded) ==
    /\ call = NoCall
    /\ call' = CodecCall("decodeMetaAddress", encoded,
                         decodeMetaAddress(encoded))
    /\ UNCHANGED <<keys, payments, scan, txs>>

IsValidMetaAddress(encoded) ==
    /\ call = NoCall
    /\ call' = CodecCall("isValidMetaAddress", encoded,
                         isValidMetaAddress(encoded))
    /\ UNCHANGED <<keys, payments, scan, txs>>

SerializeAnnouncement(announcement) ==
    /\ call = NoCall
    /\ call' = CodecCall("serializeAnnouncement", announcement,
                         Ok(serializeAnnouncement(announcement)))
    /\ UNCHANGED <<keys, payments, scan, txs>>

DeserializeAnnouncement(data) ==
    /\ call = NoCall
    /\ call' = CodecCall("deserializeAnnouncement", data,
                         deserializeAnnouncement(data))
    /\ UNCHANGED <<keys, payments, scan, txs>>

\* ------------------------------------------------------------------------
\* StealthAccount: construction, accessors, persistence (sdk.ts)
\* ------------------------------------------------------------------------

KeyViewingPrivkey == <<"v", "P", "r", "i", "v">>

KeySpendingPrivkey == <<"s", "P", "r", "i", "v">>

KeyViewingPubkey == <<"v", "P", "u", "b">>

KeySpendingPubkey == <<"s", "P", "u", "b">>

\* serialize() with the two private keys in each other's place
serializeSwapped(bundle) ==
    JSONstringify(
      << <<KeyViewingPrivkey, JsString(bs58encode(bundle.spendingPrivkey))>>,
         <<KeySpendingPrivkey, JsString(bs58encode(bundle.viewingPrivkey))>>,
         <<KeyViewingPubkey,
           JsString(bs58encode(bundle.metaAddress.viewingPubkey))>>,
         <<KeySpendingPubkey,
           JsString(bs58encode(bundle.metaAddress.spendingPubkey))>> >>)

\* StealthAccount.serialize() of an account with these keys
serialize(bundle) ==
    JSONstringify(
      << <<KeyViewingPrivkey, JsString(bs58encode(bundle.viewingPrivkey))>>,
         <<KeySpendingPrivkey, JsString(bs58encode(bundle.spendingPrivkey))>>,
         <<KeyViewingPubkey,
           JsString(bs58encode(bundle.metaAddress.viewingPubkey))>>,
         <<KeySpendingPubkey,
           JsString(bs58encode(bundle.metaAddress.spendingPubkey))>> >>)

\* bs58.decode(data.key): a throw of the property access or of the
\* decoding is a throw of deserialize
DecodedField(data, key) ==
    Then(Get(data, key), LAMBDA value : bs58decodeValue(value))

\* StealthAccount.deserialize(serialized): nothing is checked but the
\* Base58 of the four fields
deserialize(serialized) ==
    Then(JSONparse(serialized), LAMBDA data :
      Then(DecodedField(data, KeyViewingPrivkey), LAMBDA viewingPrivkey :
        Then(DecodedField(data, KeySpendingPrivkey), LAMBDA spendingPrivkey :
          Then(DecodedField(data, KeyViewingPubkey), LAMBDA viewingPubkey :
            Then(DecodedField(data, KeySpendingPubkey), LAMBDA spendingPubkey :
              Ok([viewingPrivkey  |-> viewingPrivkey,
                  spendingPrivkey |-> spendingPrivkey,
                  metaAddress     |-> [viewingPubkey  |-> viewingPubkey,
                                       spendingPubkey |-> spendingPubkey]]))))))

\* new StealthAccount(keys): the keys are taken as they are
StealthAccountOfKeys(bundle) == Ok(bundle)

\* new StealthAccount(serialized)
StealthAccountOfString(serialized) == deserialize(serialized)

\* StealthAccount.getMetaAddressString()
getMetaAddressString(bundle) == encodeMetaAddress(bundle.metaAddress)

\* the record of a call on a StealthAccount.  held names the part of the
\* account's keys that the caller has a reference to after the call: the
\* accessors return the account's own arrays and objects, and the
\* constructor keeps the object it was given.
AccountCall(op, a, input, result, held) ==
    [op |-> op, acct |-> a, input |-> input, result |-> result, held |-> held]

\* key bundles a caller may pass to the constructor: generated ones, ones
\* whose meta-address belongs to other seeds, and ones with a short key
Bundles ==
    {generateStealthKeys(v, s) : v \in Seeds, s \in Seeds}
    \cup {[generateStealthKeys(v, s) EXCEPT
             !.metaAddress = generateStealthKeys(s, v).metaAddress] :
                v \in Seeds, s \in Seeds}
    \cup {[generateStealthKeys(s, s) EXCEPT
             !.metaAddress.viewingPubkey = <<0>>] : s \in Seeds}

\* strings a caller may pass to the constructor: serialized accounts, whole
\* or cut short, with a field missing, and text that is no JSON
SerializedInputs ==
    {serialize(bundle) : bundle \in Bundles}
    \cup {SubSeq(serialize(bundle), 1, Len(serialize(bundle)) - 1) :
             bundle \in Bundles}
    \cup {JSONstringify(
            << <<KeyViewingPrivkey, JsString(bs58encode(bundle.viewingPrivkey))>>,
               <<KeySpendingPrivkey, JsString(<<"0">>)>> >>) :
             bundle \in Bundles}
    \cup {<<>>, <<NullToken>>}

\* the accounts are constructed, then one call on them is observed: the
\* methods change nothing, so what a call returns depends on the keys only
Constructing == call.op \in {"none", "new StealthAccount"}

\* new StealthAccount()
NewStealthAccount(a, viewingSeed, spendingSeed) ==
    /\ Constructing
    /\ keys' = [keys EXCEPT ![a] = generateStealthKeys(viewingSeed, spendingSeed)]
    /\ call' = AccountCall("new StealthAccount", a, <<>>, Ok(keys'[a]), "none")
    /\ UNCHANGED <<payments, scan, txs>>

\* new StealthAccount(keys)
NewStealthAccountOfKeys(a, bundle) ==
    /\ Constructing
    /\ keys' = [keys EXCEPT ![a] = StealthAccountOfKeys(bundle).val]
    /\ call' = AccountCall("new StealthAccount", a, bundle, Ok(keys'[a]), "keys")
    /\ UNCHANGED <<payments, scan, txs>>

\* new StealthAccount(serialized): a throw of deserialize leaves no account
NewStealthAccountOfString(a, serialized) ==
    /\ Constructing
    /\ keys' = IF StealthAccountOfString(serialized).ok
               THEN [keys EXCEPT ![a] = StealthAccountOfString(serialized).val]
               ELSE keys
    /\ call' = AccountCall("new StealthAccount", a, serialized,
                           StealthAccountOfString(serialized), "none")
    /\ UNCHANGED <<payments, scan, txs>>

\* getMetaAddress(): the account's own object
GetMetaAddress(a) ==
    /\ Constructing
    /\ call' = AccountCall("getMetaAddress", a, <<>>,
                           Ok(keys[a].metaAddress), "metaAddress")
    /\ UNCHANGED <<keys, payments, scan, txs>>

\* getMetaAddressString()
GetMetaAddressString(a) ==
    /\ Constructing
    /\ call' = AccountCall("getMetaAddressString", a, <<>>,
                           getMetaAddressString(keys[a]), "none")
    /\ UNCHANGED <<keys, payments, scan, txs>>

\* getViewingPrivkey(): the account's own array
GetViewingPrivkey(a) ==
    /\ Constructing
    /\ call' = AccountCall("getViewingPrivkey", a, <<>>,
                           Ok(keys[a].viewingPrivkey), "viewingPrivkey")
    /\ UNCHANGED <<keys, payments, scan, txs>>

\* getSpendingPrivkey(): the account's own array
GetSpendingPrivkey(a) ==
    /\ Constructing
    /\ call' = AccountCall("getSpendingPrivkey", a, <<>>,
                           Ok(keys[a].spendingPrivkey), "spendingPrivkey")
    /\ UNCHANGED <<keys, payments, scan, txs>>

\* serialize()
Serialize(a) ==
    /\ Constructing
    /\ call' = AccountCall("serialize", a, keys[a], Ok(serialize(keys[a])),
                           "none")
    /\ UNCHANGED <<keys, payments, scan, txs>>

\* deriveKeypair, checkViewTag, computeExpectedAddress on the account
AccountDeriveKeypair(a, ephemeralPubkey) ==
    /\ Constructing
    /\ call' = AccountCall("deriveKeypair", a, ephemeralPubkey,
                           deriveStealthKeypair(keys[a].viewingPrivkey,
                                                keys[a].spendingPrivkey,
                                                ephemeralPubkey), "none")
    /\ UNCHANGED <<keys, payments, scan, txs>>

AccountCheckViewTag(a, ephemeralPubkey, viewTag) ==
    /\ Constructing
    /\ call' = AccountCall("checkViewTag", a, <<ephemeralPubkey, viewTag>>,
                           checkViewTag(keys[a].viewingPrivkey,
                                        ephemeralPubkey, viewTag), "none")
    /\ UNCHANGED <<keys, payments, scan, txs>>

AccountComputeExpectedAddress(a, ephemeralPubkey) ==
    /\ Constructing
    /\ call' = AccountCall("computeExpectedAddress", a, ephemeralPubkey,
                           computeExpectedStealthAddress(
                               keys[a].viewingPrivkey,
                               keys[a].metaAddress.spendingPubkey,
                               ephemeralPubkey), "none")
    /\ UNCHANGED <<keys, payments, scan, txs>>

\* the parts of the keys a caller can reach through what it holds
Reachable(held) ==
    CASE held = "keys" -> {"viewingPrivkey", "spendingPrivkey",
                           "viewingPubkey", "spendingPubkey"}
      [] held = "metaAddress" -> {"viewingPubkey", "spendingPubkey"}
      [] held = "viewingPrivkey" -> {"viewingPrivkey"}
      [] held = "spendingPrivkey" -> {"spendingPrivkey"}
      [] OTHER -> {}

Written(bundle, part, i, b) ==
    CASE part = "viewingPrivkey" -> [bundle EXCEPT !.viewingPrivkey[i] = b]
      [] part = "spendingPrivkey" -> [bundle EXCEPT !.spendingPrivkey[i] = b]
      [] part = "viewingPubkey" ->
           [bundle EXCEPT !.metaAddress.viewingPubkey[i] = b]
      [] part = "spendingPubkey" ->
           [bundle EXCEPT !.metaAddress.spendingPubkey[i] = b]

PartOf(bundle, part) ==
    CASE part = "viewingPrivkey" -> bundle.viewingPrivkey
      [] part = "spendingPrivkey" -> bundle.spendingPrivkey
      [] part = "viewingPubkey" -> bundle.metaAddress.viewingPubkey
      [] part = "spendingPubkey" -> bundle.metaAddress.spendingPubkey

\* the caller stores byte b at index i - 1 of an array it holds; the array
\* is the account's
WriteHeld(part, i, b) ==
    /\ part \in Reachable(call.held)
    /\ i \in DOMAIN PartOf(keys[call.acct], part)
    /\ keys' = [keys EXCEPT ![call.acct] = Written(keys[call.acct], part, i, b)]
    /\ call' = AccountCall("write", call.acct, <<part, i, b>>,
                           Ok(keys'[call.acct]), "none")
    /\ UNCHANGED <<payments, scan, txs>>

\* ------------------------------------------------------------------------
\* StealthPayment (sdk.ts)
\* ------------------------------------------------------------------------

\* how many payments StealthPayment.create is called for
MaxCreated == 2

\* new StealthPayment(result)
StealthPaymentOf(result) ==
    [stealthAddress  |-> result.stealthPubkey,
     ephemeralPubkey |-> result.ephemeralPubkey,
     viewTag         |-> result.viewTag]

\* StealthPayment.create(recipient) for a meta-address object
createOfObject(recipient, generated) ==
    Then(computeStealthAddress(recipient, generated), LAMBDA result :
      Ok(StealthPaymentOf(result)))

\* StealthPayment.create(recipient) for a meta-address string
createOfString(recipient, generated) ==
    Then(decodeMetaAddress(recipient), LAMBDA meta :
      createOfObject(meta, generated))

MEMO_PROGRAM_ID ==
    <<"M", "e", "m", "o", "S", "q", "4", "g", "q", "A", "B", "A", "X", "K",
      "b", "9", "6", "q", "n", "H", "8", "T", "y", "s", "N", "c", "W", "x",
      "M", "y", "W", "C", "q", "X", "g", "D", "L", "G", "m", "f", "c", "H",
      "r">>

\* StealthPayment.createAnnouncementInstruction()
createAnnouncementInstruction(payment) ==
    [keys      |-> <<>>,
     programId |-> MEMO_PROGRAM_ID,
     data      |-> serializeAnnouncement(
                     [ephemeralPubkey |-> payment.ephemeralPubkey,
                      viewTag         |-> payment.viewTag,
                      stealthAddress  |-> payment.stealthAddress])]

NoMeta == [viewingPubkey |-> <<>>, spendingPubkey |-> <<>>]

\* the record of a call on payment n; for create, the meta-address it
\* computed for, the seed Keypair.generate() drew, and what
\* computeStealthAddress returned to it
PaymentCall(op, n, meta, generated, result) ==
    [op |-> op, n |-> n, meta |-> meta, generated |-> generated,
     result |-> result]

\* the meta-addresses senders pay to: those of the accounts, and ones
\* with a key that is the identity, of small order, or no point
PaidMetaAddresses ==
    {keys[a].metaAddress : a \in Accounts}
    \cup {[viewingPubkey |-> E, spendingPubkey |-> keys["A"].metaAddress.spendingPubkey] :
             E \in ProbeKeys}
    \cup {[viewingPubkey |-> keys["A"].metaAddress.viewingPubkey, spendingPubkey |-> E] :
             E \in ProbeKeys}

\* the strings senders pay to
PaidStrings ==
    {encodeMetaAddress(meta).val : meta \in PaidMetaAddresses}
    \cup {<<"i", "n", "v", "a", "l", "i", "d">>, PREFIX}

\* the payments with a new one, if create returned one.  object is the
\* StealthPayment; meta and generated are history.
Created(meta, generated, created) ==
    IF created.ok
    THEN Append(payments, [object |-> created.val, meta |-> meta,
                           generated |-> generated])
    ELSE payments

CreateOfObject(recipient, generated) ==
    /\ Len(payments) < MaxCreated
    /\ payments' = Created(recipient, generated,
                           createOfObject(recipient, generated))
    /\ call' = PaymentCall("create", Len(payments'), recipient, generated,
                           computeStealthAddress(recipient, generated))
    /\ UNCHANGED <<keys, scan, txs>>

CreateOfString(recipient, generated) ==
    /\ Len(payments) < MaxCreated
    /\ payments' = Created(IF decodeMetaAddress(recipient).ok
                           THEN decodeMetaAddress(recipient).val ELSE NoMeta,
                           generated, createOfString(recipient, generated))
    /\ call' = PaymentCall("create", Len(payments'),
                           IF decodeMetaAddress(recipient).ok
                           THEN decodeMetaAddress(recipient).val ELSE NoMeta,
                           generated,
                           Then(decodeMetaAddress(recipient), LAMBDA meta :
                             computeStealthAddress(meta, generated)))
    /\ UNCHANGED <<keys, scan, txs>>

\* getAnnouncement() that computes the payment anew
GetAnnouncementRedrawing(n) ==
    /\ n \in 1 .. Len(payments)
    /\ \E generated \in Seeds :
          /\ createOfObject(payments[n].meta, generated).ok
          /\ payments' = [payments EXCEPT
                            ![n].object = createOfObject(payments[n].meta,
                                                         generated).val]
    /\ call' = PaymentCall("getAnnouncement", n, NoMeta, <<>>,
                           Ok(getAnnouncement(payments'[n].object)))
    /\ UNCHANGED <<keys, scan, txs>>

\* payment.getAnnouncement()
GetAnnouncement(n) ==
    /\ n \in 1 .. Len(payments)
    /\ call' = PaymentCall("getAnnouncement", n, NoMeta, <<>>,
                           Ok(getAnnouncement(payments[n].object)))
    /\ UNCHANGED <<keys, payments, scan, txs>>

\* payment.createAnnouncementInstruction()
CreateAnnouncementInstruction(n) ==
    /\ n \in 1 .. Len(payments)
    /\ call' = PaymentCall("createAnnouncementInstruction", n, NoMeta, <<>>,
                           Ok(createAnnouncementInstruction(payments[n].object)))
    /\ UNCHANGED <<keys, payments, scan, txs>>

\* ------------------------------------------------------------------------
\* Two calls of scanAnnouncements in flight (sdk.ts)
\* ------------------------------------------------------------------------

Scanners == {1, 2}

\* what connection.getBalance did for an announcement of a scan
NotQueried == [kind |-> "none", lamports |-> 0]

BalanceOf(lamports) == [kind |-> "resolved", lamports |-> lamports]

QueryRejected == [kind |-> "rejected", lamports |-> 0]

\* a call of scanAnnouncements: the locals of the call, and as history what
\* getBalance did for each announcement
NoCallInFlight == [sc |-> NoScan, balances |-> <<>>]

\* the announcements two concurrent scans are handed
ConcurrentCandidates ==
    UNION {{getAnnouncement(payments[n]),
            [getAnnouncement(payments[n]) EXCEPT
               !.viewTag = (@ + 1) % ByteMod],
            [getAnnouncement(payments[n]) EXCEPT
               !.ephemeralPubkey = bigIntToBytesLE(SignBit - 1, KEY_LENGTH)]} :
              n \in 1 .. Len(payments)}

ConcurrentInputs ==
    UNION {[1 .. n -> ConcurrentCandidates] : n \in 0 .. MaxAnnouncements}

ConcurrentBalances == {0, TX_FEE_RESERVE}

\* a sender creates a payment before the scans
ConcurrentCreatePayment(a, generated) ==
    /\ Len(payments) < MaxPayments
    /\ \A k \in Scanners : scan[k].sc.pc = "idle"
    /\ payments' = PaymentsWith(a, computeStealthAddressInternal(
                                       keys[a].metaAddress, generated))
    /\ UNCHANGED <<keys, call, scan, txs>>

\* scanner k calls scanAnnouncements(announcements)
ConcurrentScanStart(k, a, announcements) ==
    /\ scan[k].sc.pc = "idle"
    /\ scan' = [scan EXCEPT
                  ![k] = [sc |-> RunScan(keys[a],
                                         [NoScan EXCEPT
                                            !.pc = "loop", !.acct = a,
                                            !.announcements = announcements]),
                          balances |-> [j \in 1 .. Len(announcements) |->
                                           NotQueried]]]
    /\ UNCHANGED <<keys, payments, call, txs>>

\* getBalance resolving for every call that awaits it
ConcurrentBalanceResolvedForAll(k, balance) ==
    /\ scan[k].sc.pc = "await"
    /\ scan' = [o \in Scanners |->
                  IF o = k
                  THEN [sc |-> ResumeScan(keys[scan[k].sc.acct], scan[k].sc,
                                          balance),
                        balances |-> [scan[k].balances EXCEPT
                                        ![scan[k].sc.i] = BalanceOf(balance)]]
                  ELSE IF scan[o].sc.pc = "await"
                  THEN [scan[o] EXCEPT
                          !.sc = ResumeScan(keys[scan[o].sc.acct], scan[o].sc,
                                            balance)]
                  ELSE scan[o]]
    /\ UNCHANGED <<keys, payments, call, txs>>

\* connection.getBalance of call k resolves: call k resumes, the other
\* call is where it was
ConcurrentBalanceResolved(k, balance) ==
    /\ scan[k].sc.pc = "await"
    /\ scan' = [scan EXCEPT
                  ![k].sc = ResumeScan(keys[scan[k].sc.acct], scan[k].sc,
                                       balance),
                  ![k].balances[scan[k].sc.i] = BalanceOf(balance)]
    /\ UNCHANGED <<keys, payments, call, txs>>

\* connection.getBalance of call k rejects
ConcurrentBalanceRejected(k) ==
    /\ scan[k].sc.pc = "await"
    /\ scan' = [scan EXCEPT
                  ![k].sc = [scan[k].sc EXCEPT
                               !.pc = "failed", !.error = "getBalance failed"],
                  ![k].balances[scan[k].sc.i] = QueryRejected]
    /\ UNCHANGED <<keys, payments, call, txs>>

RECURSIVE Alone(_, _, _)

\* a call of scanAnnouncements that runs alone from sc on, getBalance
\* doing what balances says
Alone(account, sc, balances) ==
    IF sc.pc # "await" THEN sc
    ELSE IF balances[sc.i].kind = "resolved"
    THEN Alone(account, ResumeScan(account, sc, balances[sc.i].lamports),
               balances)
    ELSE IF balances[sc.i].kind = "rejected"
    THEN [sc EXCEPT !.pc = "failed", !.error = "getBalance failed"]
    ELSE sc

\* scanAnnouncements(announcements) of the account's scanner, alone
ScanAlone(a, announcements, balances) ==
    Alone(keys[a],
          RunScan(keys[a], [NoScan EXCEPT !.pc = "loop", !.acct = a,
                                          !.announcements = announcements]),
          balances)

\* ------------------------------------------------------------------------
\* Specifications
\* ------------------------------------------------------------------------

\* the core functions and the account's methods, called on the payments
Next ==
    \/ \E a \in Accounts, e \in Seeds : CreatePayment(a, e)
    \/ \E a \in Accounts, E \in AnnouncedKeys \cup ProbeKeys :
          DeriveKeypair(a, E)
    \/ \E a \in Accounts, E \in AnnouncedKeys \cup ProbeKeys, vt \in Byte :
          CheckViewTag(a, E, vt)
    \/ \E a \in Accounts, E \in AnnouncedKeys \cup ProbeKeys :
          ComputeExpectedAddress(a, E)
    \/ \E m \in Messages, s \in StealthScalars : SignWithScalar(m, s)

Spec == Init /\ [][Next]_vars

\* the scanner's operations: payments are created, one scan runs over
\* announcements, and payments are withdrawn
NextScan ==
    \/ \E a \in Accounts, e \in Seeds : CreatePayment(a, e)
    \/ \E a \in Accounts, announcements \in ScanInputs :
          ScanStart(a, announcements)
    \/ \E balance \in Balances : BalanceResolved(balance)
    \/ BalanceRejected
    \/ \E payment \in Withdrawable, destination \in Destinations,
          leaveRent \in BOOLEAN, rentExempt \in RentExemptions :
          Withdraw(payment, destination, leaveRent, rentExempt)

SpecScan == Init /\ [][NextScan]_vars

\* the codecs read no account: one set of keys stands for all
InitCodec ==
    /\ Init
    /\ \A a \in Accounts :
          keys[a] = generateStealthKeys(Repeat(0, KEY_LENGTH),
                                        Repeat(0, KEY_LENGTH))

\* the functions of encoding.ts and the announcement codec of sdk.ts
NextCodec ==
    \/ /\ call = NoCall
       /\ \E meta \in MetaAddresses : EncodeMetaAddress(meta)
    \/ /\ call = NoCall
       /\ \E encoded \in EncodedInputs : DecodeMetaAddress(encoded)
    \/ /\ call = NoCall
       /\ \E encoded \in EncodedInputs : IsValidMetaAddress(encoded)
    \/ /\ call = NoCall
       /\ \E announcement \in Announcements :
             SerializeAnnouncement(announcement)
    \/ /\ call = NoCall
       /\ \E data \in Texts : DeserializeAnnouncement(data)

SpecCodec == InitCodec /\ [][NextCodec]_vars


\* StealthAccount objects: constructed in the three ways, called, and the
\* values that went in and out written to by their holder
InitAccount ==
    /\ keys \in [Accounts -> {generateStealthKeys(s, s) : s \in Seeds}]
    /\ payments = <<>>
    /\ call = AccountCall("none", "A", <<>>, Err("none"), "none")
    /\ scan = NoScan
    /\ txs = <<>>

NextAccount ==
    \/ /\ Constructing
       /\ \E a \in Accounts, v \in Seeds, s \in Seeds : NewStealthAccount(a, v, s)
    \/ /\ Constructing
       /\ \E a \in Accounts, bundle \in Bundles : NewStealthAccountOfKeys(a, bundle)
    \/ /\ Constructing
       /\ \E a \in Accounts, serialized \in SerializedInputs :
             NewStealthAccountOfString(a, serialized)
    \/ \E a \in Accounts : GetMetaAddress(a)
    \/ \E a \in Accounts : GetMetaAddressString(a)
    \/ \E a \in Accounts : GetViewingPrivkey(a)
    \/ \E a \in Accounts : GetSpendingPrivkey(a)
    \/ \E a \in Accounts : Serialize(a)
    \/ /\ Constructing
       /\ \E a \in Accounts, E \in ProbeKeys : AccountDeriveKeypair(a, E)
    \/ /\ Constructing
       /\ \E a \in Accounts, E \in ProbeKeys, vt \in Byte :
             AccountCheckViewTag(a, E, vt)
    \/ /\ Constructing
       /\ \E a \in Accounts, E \in ProbeKeys : AccountComputeExpectedAddress(a, E)
    \/ /\ call.op # "write"
       /\ \E part \in Reachable(call.held), i \in 1 .. KEY_LENGTH, b \in Byte :
             WriteHeld(part, i, b)

SpecAccount == InitAccount /\ [][NextAccount]_vars

\* senders creating payments and reading their announcements
InitPay ==
    /\ keys \in [Accounts -> {generateStealthKeys(v, s) : v \in Seeds, s \in Seeds}]
    /\ payments = <<>>
    /\ call = PaymentCall("none", 0, NoMeta, <<>>, Err("none"))
    /\ scan = NoScan
    /\ txs = <<>>

NextPay ==
    \/ /\ Len(payments) < MaxCreated
       /\ \E recipient \in PaidMetaAddresses, generated \in Seeds :
             CreateOfObject(recipient, generated)
    \/ /\ Len(payments) < MaxCreated
       /\ \E recipient \in PaidStrings, generated \in Seeds :
             CreateOfString(recipient, generated)
    \/ \E n \in 1 .. MaxCreated : GetAnnouncement(n)
    \/ \E n \in 1 .. MaxCreated : CreateAnnouncementInstruction(n)

SpecPay == InitPay /\ [][NextPay]_vars

\* two calls of scanAnnouncements, of one scanner or of two, that
\* interleave where they await getBalance
InitConcurrent ==
    /\ keys \in [Accounts -> {generateStealthKeys(s, s) : s \in Seeds}]
    /\ payments = <<>>
    /\ call = NoCall
    /\ scan = [k \in Scanners |-> NoCallInFlight]
    /\ txs = <<>>

NextConcurrent ==
    \/ /\ Len(payments) < MaxPayments
       /\ \E a \in Accounts, generated \in Seeds :
             ConcurrentCreatePayment(a, generated)
    \/ \E k \in Scanners :
          /\ scan[k].sc.pc = "idle"
          /\ \E a \in Accounts, announcements \in ConcurrentInputs :
                ConcurrentScanStart(k, a, announcements)
    \/ \E k \in Scanners, balance \in ConcurrentBalances :
          ConcurrentBalanceResolved(k, balance)
    \/ \E k \in Scanners : ConcurrentBalanceRejected(k)

SpecConcurrent == InitConcurrent /\ [][NextConcurrent]_vars

\* ------------------------------------------------------------------------
\* Properties
\* ------------------------------------------------------------------------

\* the last call was made by the recipient of payment n on its ephemeral key
CallOnPayment(op, n) ==
    /\ call.op = op
    /\ call.acct = payments[n].recipient
    /\ call.ephemeralPubkey = payments[n].ephemeralPubkey

\* C1 (agreement): when the recipient of a payment calls
\* computeExpectedStealthAddress with its viewing key, its spending public
\* key and the ephemeral key E of the payment, the call returns exactly the
\* stealth address S that computeStealthAddress gave the sender.
C1_Agreement ==
    \A n \in 1 .. Len(payments) :
        CallOnPayment("computeExpectedStealthAddress", n)
            => call.result = Ok(payments[n].stealthAddress)

C1_AgreementReached ==
    \E n \in 1 .. Len(payments) :
        /\ CallOnPayment("computeExpectedStealthAddress", n)
        /\ call.result.ok
        /\ payments[n].stealthAddress # keys[call.acct].metaAddress.spendingPubkey

\* C2 (spendability): when the recipient of a payment calls
\* deriveStealthKeypair with its two private keys and the ephemeral key of
\* the payment, the call returns a keypair whose public key is the stealth
\* address of the payment, byte for byte.
C2_Spendability ==
    \A n \in 1 .. Len(payments) :
        CallOnPayment("deriveStealthKeypair", n)
            => /\ call.result.ok
               /\ call.result.val.publicKey = payments[n].stealthAddress

\* C3 (signature validity): the signature signWithScalar makes for a
\* message with the stealth scalar of a payment and its public key
\* verifies under that public key by the Ed25519 verification rule.
C3_SignatureValidity ==
    call.op = "signWithScalar"
        => /\ call.result.ok
           /\ ed25519verify(call.result.val, call.message, call.pubkey)

\* C4 (scalar-form signing in withdraw): every transaction withdraw signs
\* carries a signature made with the scalar held in the first half of the
\* payment's secret key, S = r + k * scalar for some nonce r, and not one
\* made by hashing that half as a seed.
C4_WithdrawSignsWithScalar ==
    \A n \in 1 .. Len(txs) :
        \E r \in 1 .. (L - 1) :
            txs[n].signature =
                SignatureOf(TransferMessage(txs[n].fromPubkey, txs[n].toPubkey,
                                            txs[n].lamports),
                            getScalarFromKeypair(txs[n].signer),
                            txs[n].signer.publicKey, r)

\* C5 (scalar-form key): the keypair deriveStealthKeypair returns for a
\* payment holds, little-endian in the first half of its secret key, the
\* scalar s = (s_spend + t) mod L, which is below L, and s * B is the
\* public key of the keypair.
C5_ScalarFormKey ==
    \A n \in 1 .. Len(payments) :
        CallOnPayment("deriveStealthKeypair", n)
            => /\ call.result.ok
               /\ getScalarFromKeypair(call.result.val)
                    = StealthScalar(payments[n].sharedSecret,
                                    keys[call.acct].spendingPrivkey)
               /\ getScalarFromKeypair(call.result.val) < L
               /\ toRawBytes(PointMulUnsafe(
                      BASE, getScalarFromKeypair(call.result.val)))
                    = call.result.val.publicKey

\* C6 (view-tag soundness): checkViewTag with the viewing key of the
\* recipient of a payment, the ephemeral key of the payment and the view
\* tag of the payment returns true.
C6_ViewTagSoundness ==
    \A n \in 1 .. Len(payments) :
        (CallOnPayment("checkViewTag", n) /\ call.viewTag = payments[n].viewTag)
            => call.result = Ok(TRUE)

C6_ViewTagAccepted ==
    \E n \in 1 .. Len(payments) :
        /\ CallOnPayment("checkViewTag", n)
        /\ call.viewTag = payments[n].viewTag
        /\ call.result.ok

\* C7 (wrong view tag): for the ephemeral key of a payment, checkViewTag
\* with the recipient's viewing key returns false for every tag other than
\* the payment's, (vt + 1) mod 2^BYTE_BITS included, and a tag, the
\* smallest and the largest included, is accepted exactly when it is the
\* first byte of SHA-256 of the shared secret.
C7_WrongViewTag ==
    \A n \in 1 .. Len(payments) :
        CallOnPayment("checkViewTag", n)
            => /\ call.result =
                    Ok(call.viewTag = sha256(payments[n].sharedSecret)[1])
               /\ call.viewTag # payments[n].viewTag => call.result = Ok(FALSE)

\* the largest tag is the payment's, and the tag after it, 0, is refused
C7_WrappedTagRefused ==
    \E n \in 1 .. Len(payments) :
        /\ CallOnPayment("checkViewTag", n)
        /\ payments[n].viewTag = ByteMod - 1
        /\ call.viewTag = (payments[n].viewTag + 1) % ByteMod
        /\ call.result = Ok(FALSE)

\* both checks of the scanner pass for an announcement
Verified(account, announcement) ==
    /\ checkViewTag(account.viewingPrivkey, announcement.ephemeralPubkey,
                    announcement.viewTag) = Ok(TRUE)
    /\ computeExpectedStealthAddress(account.viewingPrivkey,
                                     account.metaAddress.spendingPubkey,
                                     announcement.ephemeralPubkey)
         = Ok(announcement.stealthAddress)

\* the view tag does not match, or it matches and the address does not
Negative(account, announcement) ==
    \/ checkViewTag(account.viewingPrivkey, announcement.ephemeralPubkey,
                    announcement.viewTag) = Ok(FALSE)
    \/ /\ checkViewTag(account.viewingPrivkey, announcement.ephemeralPubkey,
                       announcement.viewTag) = Ok(TRUE)
       /\ LET expectedAddress ==
                  computeExpectedStealthAddress(
                      account.viewingPrivkey,
                      account.metaAddress.spendingPubkey,
                      announcement.ephemeralPubkey)
          IN  expectedAddress.ok
              /\ expectedAddress.val # announcement.stealthAddress

\* C8 (scanner verification): every discovered payment of a scan comes
\* from an announcement of its input for which the account's checkViewTag
\* was true and the recomputed expected address is the claimed stealth
\* address; getBalance is called, and after it deriveKeypair, only for
\* announcements that passed both checks.
C8_ScannerVerification ==
    /\ \A j \in scan.queried \cup scan.derived :
          /\ j \in 1 .. Len(scan.announcements)
          /\ Verified(keys[scan.acct], scan.announcements[j])
    /\ scan.derived \subseteq scan.queried
    /\ \A d \in 1 .. Len(scan.discovered) :
          /\ scan.discovered[d].index \in scan.derived
          /\ scan.discovered[d].stealthAddress
               = scan.announcements[scan.discovered[d].index].stealthAddress
          /\ scan.discovered[d].ephemeralPubkey
               = scan.announcements[scan.discovered[d].index].ephemeralPubkey

\* a scan has called deriveKeypair
C8_KeyDerivationReached == scan.derived # {}

\* C9 (silent negatives): an announcement whose view tag does not match,
\* or whose view tag matches while the recomputed address differs from the
\* claimed one, raises no error, adds nothing to the result and does not
\* stop the scan: the scan never ends or waits at it, and a scan that
\* returns has gone through every announcement.
C9_SilentNegatives ==
    /\ \A j \in 1 .. Len(scan.announcements) :
          Negative(keys[scan.acct], scan.announcements[j])
              => /\ ~(scan.pc \in {"failed", "await"} /\ scan.i = j)
                 /\ j \notin scan.queried \cup scan.derived
                 /\ \A d \in 1 .. Len(scan.discovered) :
                       scan.discovered[d].index # j
    /\ scan.pc = "done" => scan.i = Len(scan.announcements) + 1

\* the scan went past an announcement whose view tag matches and whose
\* address does not, and works on the one after it
C9_ScanWentOn ==
    /\ scan.pc = "await"
    /\ scan.i = 2
    /\ checkViewTag(keys[scan.acct].viewingPrivkey,
                    scan.announcements[1].ephemeralPubkey,
                    scan.announcements[1].viewTag) = Ok(TRUE)
    /\ Negative(keys[scan.acct], scan.announcements[1])

\* C11 (meta-address round trip): for a meta-address of two keys of
\* KEY_LENGTH bytes, encodeMetaAddress returns a string that starts with
\* st:sol:, that is the same on every call, and that decodeMetaAddress
\* turns back into the same viewing key and the same spending key, in
\* this order.
C11_MetaAddressRoundTrip ==
    (/\ call.op = "encodeMetaAddress"
     /\ Len(call.input.viewingPubkey) = KEY_LENGTH
     /\ Len(call.input.spendingPubkey) = KEY_LENGTH)
        => /\ call.result.ok
           /\ call.result = encodeMetaAddress(call.input)
           /\ startsWith(call.result.val, PREFIX)
           /\ decodeMetaAddress(call.result.val)
                = Ok([viewingPubkey  |-> call.input.viewingPubkey,
                      spendingPubkey |-> call.input.spendingPubkey])

C11_LeadingZeroEncoded ==
    /\ call.op = "encodeMetaAddress"
    /\ call.result.ok
    /\ call.input.viewingPubkey[1] = 0
    /\ call.input.viewingPubkey # call.input.spendingPubkey
    /\ decodeMetaAddress(call.result.val).ok

\* the payload of an encoded string
Payload(encoded) == DropFirst(encoded, Len(PREFIX))

\* the prefix is there, the rest is Base58 and stands for two keys
WellFormed(encoded) ==
    /\ startsWith(encoded, PREFIX)
    /\ \A i \in 1 .. Len(Payload(encoded)) : Payload(encoded)[i] \in Base58Chars
    /\ Len(bs58decode(Payload(encoded)).val) = KEY_LENGTH * 2

EncodingErrors ==
    {"Invalid stealth address format",
     "Invalid base58 encoding in stealth address",
     "Invalid stealth address length"}

Rejected ==
    {<<"i", "n", "v", "a", "l", "i", "d">>,
     PREFIX,
     <<"s", "t", ":", "e", "t", "h", ":", "A", "B", "C">>}

\* C12 (decoding rejects): decodeMetaAddress returns exactly for the
\* strings that start with st:sol:, whose rest is Base58 and decodes to
\* two keys' worth of bytes; on every other string, "invalid", "st:sol:"
\* and "st:eth:ABC" among them, it throws an encoding error and
\* isValidMetaAddress returns false without throwing.  Whether a half is
\* a point of the curve plays no part.
C12_DecodeRejects ==
    /\ call.op = "decodeMetaAddress"
         => /\ call.result.ok <=> WellFormed(call.input)
            /\ ~call.result.ok => call.result.err \in EncodingErrors
            /\ call.input \in Rejected => ~call.result.ok
    /\ call.op = "isValidMetaAddress"
         => /\ call.result = Ok(WellFormed(call.input))
            /\ call.input \in Rejected => call.result = Ok(FALSE)

C12_NonPointDecoded ==
    /\ call.op = "decodeMetaAddress"
    /\ call.result.ok
    /\ ~fromHex(call.result.val.viewingPubkey).ok

\* C13 (announcement round trip): deserializeAnnouncement of what
\* serializeAnnouncement returned for an announcement is not null, has the
\* ephemeral key, the view tag and the stealth address of the
\* announcement, and serializes to the same text again.
C13_AnnouncementRoundTrip ==
    call.op = "serializeAnnouncement"
        => /\ deserializeAnnouncement(call.result.val).ok
           /\ deserializeAnnouncement(call.result.val).val # JsNull
           /\ deserializeAnnouncement(call.result.val).val = call.input
           /\ serializeAnnouncement(deserializeAnnouncement(call.result.val).val)
                = call.result.val

C13_AnnouncementDecoded ==
    /\ call.op = "serializeAnnouncement"
    /\ call.input.ephemeralPubkey[1] = 0
    /\ call.input.ephemeralPubkey # call.input.stealthAddress
    /\ call.input.viewTag = ByteMod - 1
    /\ deserializeAnnouncement(call.result.val).val # JsNull

\* parsed[key] of what JSON.parse returned, undefined where there is none
Field(parsed, key) ==
    IF parsed.type = "object" /\ key \in DOMAIN parsed.fields
    THEN parsed.fields[key]
    ELSE Undefined

IsBase58String(value) ==
    /\ value.type = "string"
    /\ \A i \in 1 .. Len(value.val) : value.val[i] \in Base58Chars

IsViewTag(value) ==
    /\ value.type = "number"
    /\ value.num \in Byte

\* the text is JSON with t = "STEALTH", Base58 in e and s and a view tag
\* of one byte
Acceptable(data) ==
    /\ JSONparse(data).ok
    /\ Field(JSONparse(data).val, KeyT) = JsString(ANNOUNCEMENT_TAG)
    /\ IsBase58String(Field(JSONparse(data).val, KeyE))
    /\ IsBase58String(Field(JSONparse(data).val, KeyS))
    /\ IsViewTag(Field(JSONparse(data).val, KeyVT))

\* C14 (soft failure): deserializeAnnouncement never throws, and it
\* returns null for every text that is not JSON, whose t is missing or is
\* not "STEALTH", whose e or s is not Base58, or whose vt is no number in
\* 0 .. 255; it returns an announcement only for the other texts.
C14_SoftFailure ==
    call.op = "deserializeAnnouncement"
        => /\ call.result.ok
           /\ ~Acceptable(call.input) => call.result.val = JsNull

\* the announcement that an acceptable text carries
Carried(data) ==
    [ephemeralPubkey |-> bs58decode(Field(JSONparse(data).val, KeyE).val).val,
     viewTag         |-> Field(JSONparse(data).val, KeyVT).num,
     stealthAddress  |-> bs58decode(Field(JSONparse(data).val, KeyS).val).val]

\* acceptable, with keys of the length of a key
Valid(data) ==
    /\ Acceptable(data)
    /\ Len(Carried(data).ephemeralPubkey) = KEY_LENGTH
    /\ Len(Carried(data).stealthAddress) = KEY_LENGTH

\* C15 (forward compatibility): a text with t = "STEALTH" and valid e, vt
\* and s is decoded to the announcement of these three, whatever its v is
\* (this version, a higher one, none) and whatever other fields it has.
C15_ForwardCompatible ==
    (call.op = "deserializeAnnouncement" /\ Valid(call.input))
        => call.result = Ok(Carried(call.input))

C15_HigherVersionDecoded ==
    /\ call.op = "deserializeAnnouncement"
    /\ Valid(call.input)
    /\ Field(JSONparse(call.input).val, KeyV) = JsNumber(ANNOUNCEMENT_VERSION + 1)
    /\ Field(JSONparse(call.input).val, Unknown[1]) # Undefined
    /\ call.result.val # JsNull

C18_SharedSecretAgreement ==
    \A n \in 1 .. Len(payments) :
        ReceiverSharedSecret(keys[payments[n].recipient].viewingPrivkey,
                             payments[n].ephemeralPubkey)
            = Ok(payments[n].sharedSecret)

C18_SecretShared ==
    \E n \in 1 .. Len(payments) :
        /\ payments[n].ephemeralPubkey
             # keys[payments[n].recipient].metaAddress.viewingPubkey
        /\ ReceiverSharedSecret(keys[payments[n].recipient].viewingPrivkey,
                                payments[n].ephemeralPubkey).ok

\* the bytes do not decompress, or decompress to the identity or to
\* another point of small order
Unusable(pubkey) ==
    \/ ~fromHex(pubkey).ok
    \/ PointMulUnsafe(fromHex(pubkey).val, COFACTOR) = ZERO

\* C19 (point validation in the bridge): for an ephemeral public key that
\* does not decompress, is the identity or has small order, the
\* conversion to X25519 fails, and so deriveStealthKeypair, checkViewTag
\* and computeExpectedStealthAddress fail instead of returning.
C19_PointValidation ==
    (/\ call.op \in {"deriveStealthKeypair", "checkViewTag",
                     "computeExpectedStealthAddress"}
     /\ Unusable(call.ephemeralPubkey))
        => /\ ~ed25519PubToX25519(call.ephemeralPubkey).ok
           /\ ~call.result.ok

\* C20 (derivation is infallible): deriveStealthKeypair returns a keypair
\* for every ephemeral public key that decompresses to a point; it fails
\* for no other reason, and the construction of the keypair from the
\* scalar and the public key rejects nothing.
C20_DeriveInfallible ==
    (/\ call.op = "deriveStealthKeypair"
     /\ fromHex(call.ephemeralPubkey).ok)
        => call.result.ok

\* the public keys are those of the private keys, and all four keys have
\* the length of a key
KeyBundle(bundle) ==
    /\ Len(bundle.viewingPrivkey) = KEY_LENGTH
    /\ Len(bundle.spendingPrivkey) = KEY_LENGTH
    /\ Len(bundle.metaAddress.viewingPubkey) = KEY_LENGTH
    /\ Len(bundle.metaAddress.spendingPubkey) = KEY_LENGTH
    /\ bundle.metaAddress.viewingPubkey = getPublicKey(bundle.viewingPrivkey)
    /\ bundle.metaAddress.spendingPubkey = getPublicKey(bundle.spendingPrivkey)

\* C21: in the key bundle of every StealthAccount, however it was
\* constructed (fresh, from a StealthKeys object, from a serialized
\* string), the two public keys of the meta-address are the Ed25519 public
\* keys of the two private keys, and all four values have the key length.
C21_KeyBundle ==
    call.op \in {"none", "new StealthAccount"} =>
        \A a \in Accounts : KeyBundle(keys[a])

\* the account that a serialized account is restored to
Restored == StealthAccountOfString(call.result.val)

\* C25: for every StealthAccount a, new StealthAccount(a.serialize()) has
\* the same meta-address string, the same viewing and spending private
\* keys, and derives the same keypair for every ephemeral public key as a.
C25_PersistenceRoundTrip ==
    call.op = "serialize" =>
        /\ Restored.ok
        /\ getMetaAddressString(Restored.val) = getMetaAddressString(call.input)
        /\ Restored.val.viewingPrivkey = call.input.viewingPrivkey
        /\ Restored.val.spendingPrivkey = call.input.spendingPrivkey
        /\ \A E \in ProbeKeys \cup Destinations :
              deriveStealthKeypair(Restored.val.viewingPrivkey,
                                   Restored.val.spendingPrivkey, E)
              = deriveStealthKeypair(call.input.viewingPrivkey,
                                     call.input.spendingPrivkey, E)

\* an account whose two private keys differ and start with a zero byte
\* has been serialized, and the string restores to an account
C25_AccountRestored ==
    /\ call.op = "serialize"
    /\ call.input = keys[call.acct]
    /\ call.input.viewingPrivkey # call.input.spendingPrivkey
    /\ call.input.viewingPrivkey[1] = 0
    /\ Restored.ok
    /\ Restored.val = call.input

\* C27: no StealthAccount operation changes the account's seeds or
\* meta-address, and no caller holding a value passed to or returned by
\* the operations can change them: after construction the keys stay.
C27_ImmutableAfterConstruction ==
    [][call'.op # "new StealthAccount" => keys' = keys]_vars

\* what create computed for payment n, secrets included
Computed(n) ==
    computeStealthAddressInternal(payments[n].meta, payments[n].generated).val

\* C22: the result of computeStealthAddress and every StealthPayment hold
\* only (stealthAddress, ephemeralPubkey, viewTag), the public part of what
\* was computed; the ephemeral private key and the shared secret are not
\* among their fields.
C22_NoSecretRetained ==
    /\ (call.op = "create" /\ call.result.ok) =>
          DOMAIN call.result.val = {"stealthPubkey", "ephemeralPubkey", "viewTag"}
    /\ \A n \in 1 .. Len(payments) :
          /\ DOMAIN payments[n].object
                = {"stealthAddress", "ephemeralPubkey", "viewTag"}
          /\ payments[n].object.stealthAddress = Computed(n).stealthPubkey
          /\ payments[n].object.ephemeralPubkey = Computed(n).ephemeralPubkey
          /\ payments[n].object.viewTag = Computed(n).viewTag

\* a payment has been created from a string, with an ephemeral private key
\* and a shared secret computed on the way
C22_PaymentCreated ==
    /\ call.op = "create"
    /\ call.result.ok
    /\ call.n = Len(payments)
    /\ call.n >= 1
    /\ Computed(call.n).ephemeralPrivkey = call.generated
    /\ Len(Computed(call.n).sharedSecret) = KEY_LENGTH

\* the accounts a meta-address belongs to
Recipients(meta) == {a \in Accounts : keys[a].metaAddress = meta}

\* the recipient derives the keypair of payment n
Derivable(n) ==
    \A a \in Recipients(payments[n].meta) :
        /\ deriveStealthKeypair(keys[a].viewingPrivkey, keys[a].spendingPrivkey,
                                payments[n].object.ephemeralPubkey).ok
        /\ deriveStealthKeypair(keys[a].viewingPrivkey, keys[a].spendingPrivkey,
                                payments[n].object.ephemeralPubkey).val.publicKey
             = payments[n].object.stealthAddress

\* C23: any two payments computed for the same meta-address with two
\* different ephemeral keys have different ephemeral public keys and
\* different stealth addresses, and the recipient can derive the keypair of
\* each of them.
C23_Unlinkability ==
    \A m \in 1 .. Len(payments), n \in 1 .. Len(payments) :
        (/\ m # n
         /\ payments[m].meta = payments[n].meta
         /\ payments[m].generated # payments[n].generated)
        => /\ payments[m].object.ephemeralPubkey # payments[n].object.ephemeralPubkey
           /\ payments[m].object.stealthAddress # payments[n].object.stealthAddress
           /\ Derivable(m)
           /\ Derivable(n)

\* C24: for every meta-address, the stealth address that
\* computeStealthAddress returns is not the spending public key of the
\* meta-address.
C24_AddressDiffers ==
    /\ (call.op = "create" /\ call.result.ok) =>
          call.result.val.stealthPubkey # call.meta.spendingPubkey
    /\ \A n \in 1 .. Len(payments) :
          payments[n].object.stealthAddress # payments[n].meta.spendingPubkey

\* computeStealthAddress has returned an address for the meta-address of an
\* account
C24_AddressReturned ==
    /\ call.op = "create"
    /\ call.result.ok
    /\ Recipients(call.meta) # {}
    /\ fromHex(call.result.val.stealthPubkey).ok

\* the triple create computed for payment n
Triple(n) ==
    [ephemeralPubkey |-> Computed(n).ephemeralPubkey,
     viewTag         |-> Computed(n).viewTag,
     stealthAddress  |-> Computed(n).stealthPubkey]

\* C26: a StealthPayment computes its triple once, in create, from the
\* meta-address given as object or as string; every later getAnnouncement
\* returns that triple, every createAnnouncementInstruction carries
\* serializeAnnouncement of that triple, in any number and order of calls,
\* and no later call changes the payment or draws a new ephemeral key.
C26_ComputedOnce ==
    /\ [](/\ call.op = "getAnnouncement" => call.result.val = Triple(call.n)
          /\ call.op = "createAnnouncementInstruction" =>
                call.result.val.data = serializeAnnouncement(Triple(call.n)))
    /\ [][\A n \in 1 .. Len(payments) :
             /\ Len(payments') >= n
             /\ payments'[n] = payments[n]]_vars

\* the announcement instruction of the first payment is made after the
\* second payment was created and its announcement read
C26_AnnouncedAfterOthers ==
    /\ call.op = "createAnnouncementInstruction"
    /\ call.n = 1
    /\ Len(payments) = MaxCreated
    /\ payments[1].object # payments[MaxCreated].object

\* C28: scanAnnouncements returns exactly the verified announcements whose
\* queried balance is positive, in input order and once per occurrence;
\* each result carries the balance queried for its own address.  A
\* verified announcement for which a positive balance was queried (the
\* ones deriveKeypair is called for) is in the result.
C28_ScanResult ==
    /\ \A d \in 1 .. Len(scan.discovered) :
          /\ scan.discovered[d].balance > 0
          /\ scan.discovered[d].index \in 1 .. Len(scan.announcements)
          /\ Verified(keys[scan.acct],
                      scan.announcements[scan.discovered[d].index])
          /\ \A e \in 1 .. Len(scan.discovered) :
                d < e => scan.discovered[d].index < scan.discovered[e].index
    /\ \A j \in scan.derived :
          \E d \in 1 .. Len(scan.discovered) : scan.discovered[d].index = j

\* a call of the scanner's loop on announcement j throws
Throws(account, announcement) ==
    \/ ~checkViewTag(account.viewingPrivkey, announcement.ephemeralPubkey,
                     announcement.viewTag).ok
    \/ /\ checkViewTag(account.viewingPrivkey, announcement.ephemeralPubkey,
                       announcement.viewTag) = Ok(TRUE)
       /\ ~computeExpectedStealthAddress(account.viewingPrivkey,
                                         account.metaAddress.spendingPubkey,
                                         announcement.ephemeralPubkey).ok

\* what the promise of scanAnnouncements settles to
ScanOutcome(sc) ==
    IF sc.pc = "done" THEN Ok(sc.discovered)
    ELSE IF sc.pc = "failed" THEN Err(sc.error)
    ELSE Err("pending")

\* C29: a cryptographic failure on an announcement or a failed balance
\* query rejects the whole scan: the scan returns no discovered payments,
\* and the announcements after the failing one are not processed.
C29_ScanRejects ==
    /\ [](/\ (\E j \in 1 .. Len(scan.announcements) :
                 Throws(keys[scan.acct], scan.announcements[j]))
             => ~ScanOutcome(scan).ok
          /\ scan.pc = "failed"
             => /\ scan.i \in 1 .. Len(scan.announcements)
                /\ scan.queried \cup scan.derived \subseteq 1 .. scan.i
                /\ \A j \in 1 .. (scan.i - 1) :
                      ~Throws(keys[scan.acct], scan.announcements[j]))
    /\ [][/\ (scan.pc = "await" /\ BalanceRejected)
             => (~ScanOutcome(scan').ok /\ scan'.pc = "failed")
          /\ scan.pc = "failed" => scan' = scan]_vars

\* the scan was rejected at its second announcement, whose checks threw,
\* after the first one had been verified and its balance queried
C29_RejectedAtSecond ==
    /\ scan.pc = "failed"
    /\ scan.i = 2
    /\ Len(scan.announcements) = 2
    /\ scan.queried = {1}
    /\ Throws(keys[scan.acct], scan.announcements[2])

\* C30: two calls of scanAnnouncements, on the same scanner or on two,
\* that interleave at the points where they await getBalance each are
\* where, and return what, they would be and return if they ran alone with
\* the same balances.
C30_ConcurrentScans ==
    \A k \in Scanners :
        scan[k].sc.pc # "idle" =>
            scan[k].sc = ScanAlone(scan[k].sc.acct, scan[k].sc.announcements,
                                   scan[k].balances)

\* both calls are suspended at getBalance, the first one for its second
\* announcement after it resumed from the first
C30_BothSuspended ==
    /\ \A k \in Scanners : scan[k].sc.pc = "await"
    /\ scan[1].sc.i = 2
    /\ scan[1].balances[1].kind = "resolved"
    /\ scan[2].sc.i = 1

=============================================================================
